---- MODULE Spec2Model ----
(***************************************************************************)
(* Model of the lottery statistics engine, src/calculate_stats.py.         *)
(*                                                                         *)
(* Python values are encoded as records [t, v]: t is the Python type       *)
(* ("int", "bool", "str", "none", "absent") and v an integer payload (the  *)
(* value of an int or bool, the index of a test string).  Floats are       *)
(* modelled as exact rationals <<numerator, denominator>>; a square root   *)
(* is never taken, the model keeps the squared standard deviation.         *)
(***************************************************************************)
EXTENDS Integers, Sequences, FiniteSets, TLC

\* Bounds of the model.
MaxRegular == 6
MaxSpecial == 2
MaxDraws == 2
MaxProbNumber == 8
MaxEntryDraws == 14
MaxVerifyObserved == 1
MaxSaveDate == 2
MaxSaveDraws == 2

VARIABLES
    draws,                  \* the input list of calculate_stats_for_type
    arg_max_regular, arg_max_special,   \* its game configuration
    pc,                     \* position in calculate_stats_for_type
    idx,                    \* loop index of "for draw in draws" (1-based)
    valid_draws,
    frequency,
    special_frequency,
    position_frequency,
    existing_combinations,
    stats,                  \* the returned record (NoStats until returned)
    prob_pc,                \* position in a call of calculate_exact_position_probability
    arg_number, arg_position, arg_max_number,   \* its arguments
    returned_probability,   \* its return value
    arg_total_draws, arg_observed,  \* a draw count and a count of one number
    returned_residuals,     \* the residuals computed from them
    sum_k, sum_acc,         \* loop summing the probabilities of one position
    search_pc,              \* position in a no-repeat strategy
    top_regular, top_special,   \* sorted_regular, sorted_special[:10] of the general one
    top_by_position, top_special_5,     \* the candidate lists [:5] of the position one
    attempts,               \* the attempt counter of the strategy
    loop_index,             \* iteration of the five nested loops (0-based)
    special_index,          \* index in the loop over the special balls (1-based)
    combo,                  \* the tuple last looked up in existing_combinations
    search_result,          \* the return value of the strategy
    returned_verified,      \* the return value of verify_frequency_stats
    files,                  \* the files of DATA_DIR, by name
    bucket,                 \* the objects data/<name> of the storage bucket
    run_pc,                 \* position in run_scraper
    scrape_pc,              \* position in scrape_lottery_data
    latest_draws,           \* the latest draw date of each game
    all_draws,              \* all_powerball_draws, all_megamillions_draws
    any_new_draws,
    save_args,              \* draws and filename of the last save_to_json call
    new_draws_added,        \* its return value
    calls                   \* the calls of one run of the scraper, in order

aggVars == <<draws, arg_max_regular, arg_max_special, pc, idx, valid_draws, frequency, special_frequency,
             position_frequency, existing_combinations, stats>>
probVars == <<prob_pc, arg_number, arg_position, arg_max_number,
              returned_probability>>
entryVars == <<arg_total_draws, arg_observed, returned_residuals>>
sumVars == <<sum_k, sum_acc>>
searchVars == <<search_pc, top_regular, top_special, top_by_position,
                top_special_5, attempts, loop_index, special_index, combo,
                search_result>>
scraperVars == <<files, bucket, run_pc, scrape_pc, latest_draws, all_draws,
                 any_new_draws, save_args, new_draws_added, calls>>
vars == <<aggVars, probVars, entryVars, sumVars, searchVars, returned_verified,
          scraperVars>>

----------------------------------------------------------------------------
\* Python values

PyInt(n) == [t |-> "int", v |-> n]
PyStrVal(n) == [t |-> "str", v |-> n]
PyTrue == [t |-> "bool", v |-> 1]
PyNone == [t |-> "none", v |-> 0]
Absent == [t |-> "absent", v |-> 0]

\* isinstance(x, int): bool is a subclass of int
IsInstanceInt(x) == x.t \in {"int", "bool"}

Digit == <<"0", "1", "2", "3", "4", "5", "6", "7", "8", "9">>

\* str(n) of an integer 0 <= n <= 99
IntToStr(n) ==
    IF n < 10 THEN Digit[n + 1]
    ELSE Digit[(n \div 10) + 1] \o Digit[(n % 10) + 1]

\* str(x) of an int or a bool
PyStr(x) ==
    IF x.t = "bool" THEN (IF x.v = 1 THEN "True" ELSE "False")
    ELSE IntToStr(x.v)

\* the integer each decimal string of 0..99 stands for
DecimalValue == [s \in {IntToStr(n) : n \in 0..99} |-> CHOOSE n \in 0..99 : IntToStr(n) = s]

\* int(s) of a key of a frequency table
StrToInt(s) == DecimalValue[s]

\* f"position{i}"
PosKey(i) == "position" \o IntToStr(i)

\* pos_key.replace("position", "")
StripPosition(key) == CHOOSE s \in {IntToStr(i) : i \in 0..9} : "position" \o s = key

\* a < b raises TypeError when exactly one of them is a str (or one is None)
LtRaises(a, b) ==
    \/ a.t \in {"none", "absent"}
    \/ b.t \in {"none", "absent"}
    \/ (a.t = "str") # (b.t = "str")

\* sorted(elems) raises when some comparison does
SortedRaises(elems) ==
    \E i, j \in 1..Len(elems) : i # j /\ LtRaises(elems[i], elems[j])

RECURSIVE InsertSorted(_, _)
\* insert x after the elements not greater than it (stable)
InsertSorted(s, x) ==
    IF s = <<>> THEN <<x>>
    ELSE IF x.v < Head(s).v THEN <<x>> \o s
    ELSE <<Head(s)>> \o InsertSorted(Tail(s), x)

RECURSIVE SortFrom(_, _, _)
SortFrom(elems, i, acc) ==
    IF i > Len(elems) THEN acc ELSE SortFrom(elems, i + 1, InsertSorted(acc, elems[i]))

\* sorted(elems), for elems that compare without raising
PySorted(elems) == SortFrom(elems, 1, <<>>)

\* the class of x under == and hash (True == 1), as a set or dict sees it
HashKey(x) == IF x.t = "bool" THEN PyInt(x.v) ELSE x

----------------------------------------------------------------------------
\* Exact rationals standing for the floats of the code

Zero == <<0, 1>>

RECURSIVE GCD(_, _)
GCD(a, b) == IF b = 0 THEN a ELSE GCD(b, a % b)

Abs(x) == IF x < 0 THEN -x ELSE x

\* n/d in lowest terms, d > 0
Rat(n, d) ==
    LET g == GCD(Abs(n), Abs(d))
    IN  IF n = 0 THEN Zero ELSE <<n \div g, d \div g>>

RMul(a, b) == Rat(a[1] * b[1], a[2] * b[2])
RSub(a, b) == Rat(a[1] * b[2] - b[1] * a[2], a[2] * b[2])
RAdd(a, b) ==
    IF a[1] = 0 THEN b
    ELSE IF b[1] = 0 THEN a
    ELSE IF a[2] = b[2] THEN <<a[1] + b[1], a[2]>>
    ELSE Rat(a[1] * b[2] + b[1] * a[2], a[2] * b[2])
RDiv(a, b) == Rat(a[1] * b[2], a[2] * b[1])
RLess(a, b) == a[1] * b[2] < b[1] * a[2]
FromInt(n) == <<n, 1>>

RECURSIVE FractionLess(_, _, _, _)
\* a/b < c/d for a, c >= 0 and b, d > 0, decided on the continued fractions of
\* the two sides, so that no product of their terms is formed
FractionLess(a, b, c, d) ==
    IF a \div b # c \div d THEN a \div b < c \div d
    ELSE IF c % d = 0 THEN FALSE
    ELSE IF a % b = 0 THEN TRUE
    ELSE FractionLess(d, c % d, b, a % b)
One == <<1, 1>>

----------------------------------------------------------------------------
\* comb and calculate_exact_position_probability

RECURSIVE CombLoop(_, _, _, _)
\* lines 20-22
CombLoop(n, k, i, result) ==
    IF i >= k THEN result
    ELSE CombLoop(n, k, i + 1, (result * (n - i)) \div (i + 1))

\* C(n, k), lines 9-23
comb(n, k) ==
    IF k < 0 \/ k > n THEN 0
    ELSE IF k = 0 \/ k = n THEN 1
    ELSE CombLoop(n, IF k < n - k THEN k ELSE n - k, 0, 1)

calculate_exact_position_probability_BeforeIncludesK(number, position, max_number) ==
    LET k == number
        p == position
        min_for_position == p + 1
        max_for_position == max_number - (4 - p)
        before == IF k - 1 >= p THEN comb(k, p) ELSE 0
        after == IF (max_number - k) >= (4 - p) THEN comb(max_number - k, 4 - p) ELSE 0
        total == comb(max_number, 5)
    IN  IF k < 1 \/ k > max_number THEN Zero
        ELSE IF p < 0 \/ p > 4 THEN Zero
        ELSE IF k < min_for_position \/ k > max_for_position THEN Zero
        ELSE IF total = 0 THEN Zero
        ELSE <<before * after, total>>

calculate_exact_position_probability_NarrowRange(number, position, max_number) ==
    LET k == number
        p == position
        min_for_position == p + 1
        max_for_position == max_number - (5 - p)
        before == IF k - 1 >= p THEN comb(k - 1, p) ELSE 0
        after == IF (max_number - k) >= (4 - p) THEN comb(max_number - k, 4 - p) ELSE 0
        total == comb(max_number, 5)
    IN  IF k < 1 \/ k > max_number THEN Zero
        ELSE IF p < 0 \/ p > 4 THEN Zero
        ELSE IF k < min_for_position \/ k > max_for_position THEN Zero
        ELSE IF total = 0 THEN Zero
        ELSE <<before * after, total>>

\* lines 448-486; the float it returns, as the exact quotient <<before * after, total>>
calculate_exact_position_probability(number, position, max_number) ==
    LET k == number
        p == position
        min_for_position == p + 1
        max_for_position == max_number - (4 - p)
        before == IF k - 1 >= p THEN comb(k - 1, p) ELSE 0
        after == IF (max_number - k) >= (4 - p) THEN comb(max_number - k, 4 - p) ELSE 0
        total == comb(max_number, 5)
    IN  IF k < 1 \/ k > max_number THEN Zero
        ELSE IF p < 0 \/ p > 4 THEN Zero
        ELSE IF k < min_for_position \/ k > max_for_position THEN Zero
        ELSE IF total = 0 THEN Zero
        ELSE <<before * after, total>>

----------------------------------------------------------------------------
\* Draws

PyList(elems) == [kind |-> "list", elems |-> elems]
NotAList == [kind |-> "str", elems |-> <<>>]
NoNumbers == [kind |-> "absent", elems |-> <<>>]

DictDraw(numbers, special_ball) ==
    [isDict |-> TRUE, numbers |-> numbers, specialBall |-> special_ball]
ScalarDraw == [isDict |-> FALSE, numbers |-> NoNumbers, specialBall |-> Absent]

\* draw.get('numbers', [])
GetNumbers(draw) ==
    IF draw.numbers.kind = "absent" THEN PyList(<<>>) ELSE draw.numbers

\* draw.get('specialBall')
GetSpecialBall(draw) ==
    IF draw.specialBall.t = "absent" THEN PyNone ELSE draw.specialBall

\* a draw has 5 regular numbers (line 674)
NumbersPerDraw == 5

Ints(s) == [i \in 1..Len(s) |-> PyInt(s[i])]

\* The draw-like values the input list is built from: valid draws in rank
\* order and out of it, a draw with a repeated number, out-of-range numbers,
\* non-integer and mixed-type elements, a wrong length, missing fields, a
\* numbers field that is no list, a scalar.
ValidNumbers ==
    { Ints(<<1, 2, 3, 4, 5>>),
      Ints(<<MaxRegular, 1, 2, 3, 4>>),
      Ints(<<1, 1, 2, 3, 4>>) }

InvalidNumbers ==
    { Ints(<<1, 2, 3, 4, MaxRegular + 1>>),
      Ints(<<0, 1, 2, 3, 4>>),
      <<PyInt(1), PyStrVal(1), PyInt(2), PyInt(3), PyInt(4)>>,
      [i \in 1..5 |-> PyStrVal(i)],
      <<PyTrue, PyInt(2), PyInt(3), PyInt(4), PyInt(5)>>,
      Ints(<<1, 2, 3, 4>>) }

DrawPool ==
    {DictDraw(PyList(n), PyInt(1)) : n \in ValidNumbers \cup InvalidNumbers}
    \cup {DictDraw(PyList(Ints(<<2, 3, 4, 5, MaxRegular>>)), s) :
            s \in {PyInt(MaxSpecial), PyInt(MaxSpecial + 1), Absent}}
    \cup {DictDraw(NotAList, PyInt(1)), DictDraw(NoNumbers, Absent), ScalarDraw}

DrawLists == UNION {[1..n -> DrawPool] : n \in 0..MaxDraws}

\* The game configurations: the smallest one that admits a draw of 5 distinct
\* numbers (every probability is then 0 or 1) and the largest of the model.
GameConfigs ==
    { [max_regular |-> NumbersPerDraw, max_special |-> 1],
      [max_regular |-> MaxRegular, max_special |-> MaxSpecial] }

----------------------------------------------------------------------------
\* get_existing_combinations

\* the condition of line 175
HasCombinationShape(draw) ==
    /\ GetNumbers(draw).kind = "list"
    /\ Len(GetNumbers(draw).elems) = 5
    /\ IsInstanceInt(GetSpecialBall(draw))

\* tuple(numbers) + (special_ball,), the numbers as they come
Combo_Unsorted(draw) ==
    [i \in 1..6 |-> IF i <= 5 THEN HashKey(GetNumbers(draw).elems[i])
                        ELSE HashKey(GetSpecialBall(draw))]

\* tuple(sorted(numbers)) + (special_ball,)
Combo(draw) ==
    LET sorted == PySorted(GetNumbers(draw).elems)
    IN  [i \in 1..6 |-> IF i <= 5 THEN HashKey(sorted[i])
                        ELSE HashKey(GetSpecialBall(draw))]

RECURSIVE ExistingFrom(_, _, _)
ExistingFrom(ds, i, existing) ==
    IF i > Len(ds) THEN [raised |-> FALSE, existing |-> existing]
    ELSE IF ds[i].isDict /\ HasCombinationShape(ds[i])
         THEN IF SortedRaises(GetNumbers(ds[i]).elems)
              THEN [raised |-> TRUE, existing |-> existing]
              ELSE ExistingFrom(ds, i + 1, existing \cup {Combo(ds[i])})
         ELSE ExistingFrom(ds, i + 1, existing)

get_existing_combinations(ds) == ExistingFrom(ds, 1, {})

----------------------------------------------------------------------------
\* calculate_stats_for_type: counters and the loop over the draws

RegularKeys(max_regular) == {IntToStr(i) : i \in 1..max_regular}
SpecialKeys(max_special) == {IntToStr(i) : i \in 1..max_special}
PositionKeys == {PosKey(i) : i \in 0..4}

\* the counters without the zero entries of lines 661-663
InitCounters_Sparse(max_regular, max_special) ==
    [valid_draws |-> 0,
     frequency |-> [k \in {} |-> 0],
     special_frequency |-> [k \in {} |-> 0],
     position_frequency |-> [p \in PositionKeys |-> [k \in {} |-> 0]]]

InitCounters(max_regular, max_special) ==
    [valid_draws |-> 0,
     frequency |-> [k \in RegularKeys(max_regular) |-> 0],
     special_frequency |-> [k \in SpecialKeys(max_special) |-> 0],
     position_frequency |->
        [p \in PositionKeys |-> [k \in RegularKeys(max_regular) |-> 0]]]

\* line 674 (negated)
HasDrawStructure(draw) ==
    /\ GetNumbers(draw).kind = "list"
    /\ Len(GetNumbers(draw).elems) = 5
    /\ IsInstanceInt(GetSpecialBall(draw))

RegularNumbersValid_ExclusiveMax(elems, max_regular) ==
    \A i \in 1..Len(elems) :
        IsInstanceInt(elems[i]) /\ ~(elems[i].v < 1) /\ ~(elems[i].v >= max_regular)

\* lines 678-682
RegularNumbersValid(elems, max_regular) ==
    \A i \in 1..Len(elems) :
        IsInstanceInt(elems[i]) /\ ~(elems[i].v < 1) /\ ~(elems[i].v > max_regular)

\* line 685
SpecialBallValid(special_ball, max_special) ==
    IsInstanceInt(special_ball) /\ 1 <= special_ball.v /\ special_ball.v <= max_special

CountNumber_NoOverall(c, num_str, i) ==
    [c EXCEPT !.position_frequency[PosKey(i)][num_str] = @ + 1]

\* lines 693-695, for the number at index i (0-based) of the draw
CountNumber(c, num_str, i) ==
    [c EXCEPT !.frequency[num_str] = @ + 1,
              !.position_frequency[PosKey(i)][num_str] = @ + 1]

RECURSIVE CountRegular(_, _, _)
\* lines 692-695: a key that is not in the table raises KeyError
CountRegular(c, elems, i) ==
    IF i > Len(elems) THEN [raised |-> FALSE, c |-> c]
    ELSE IF PyStr(elems[i]) \notin DOMAIN c.frequency
         THEN [raised |-> TRUE, c |-> c]
         ELSE CountRegular(CountNumber(c, PyStr(elems[i]), i - 1), elems, i + 1)

\* line 698
CountSpecial(c, special_ball) ==
    IF PyStr(special_ball) \notin DOMAIN c.special_frequency
    THEN [raised |-> TRUE, c |-> c]
    ELSE [raised |-> FALSE,
          c |-> [c EXCEPT !.special_frequency[PyStr(special_ball)] = @ + 1]]

\* lines 688-698
CountDraw(c, draw) ==
    LET regular == CountRegular([c EXCEPT !.valid_draws = @ + 1],
                                GetNumbers(draw).elems, 1)
    IN  IF regular.raised THEN regular
        ELSE CountSpecial(regular.c, GetSpecialBall(draw))

ProcessOne_SpecialFirst(c, draw, max_regular, max_special) ==
    IF ~draw.isDict THEN [raised |-> FALSE, c |-> c]
    ELSE IF ~HasDrawStructure(draw) THEN [raised |-> FALSE, c |-> c]
    ELSE IF ~SpecialBallValid(GetSpecialBall(draw), max_special)
         THEN [raised |-> FALSE, c |-> c]
    ELSE IF RegularNumbersValid(GetNumbers(draw).elems, max_regular)
         THEN CountDraw(c, draw)
         ELSE CountSpecial(c, GetSpecialBall(draw))

\* the body of the loop, lines 667-698
ProcessOne(c, draw, max_regular, max_special) ==
    IF ~draw.isDict THEN [raised |-> FALSE, c |-> c]
    ELSE IF ~HasDrawStructure(draw) THEN [raised |-> FALSE, c |-> c]
    ELSE IF RegularNumbersValid(GetNumbers(draw).elems, max_regular)
            /\ SpecialBallValid(GetSpecialBall(draw), max_special)
         THEN CountDraw(c, draw)
         ELSE [raised |-> FALSE, c |-> c]

Counters ==
    [valid_draws |-> valid_draws,
     frequency |-> frequency,
     special_frequency |-> special_frequency,
     position_frequency |-> position_frequency]

----------------------------------------------------------------------------
\* The four optimization strategies.  A combination is a sequence of 6
\* integers; the tuples of existing_combinations hold Python values.

\* the attempt cap of lines 224 and 321
MaxAttempts == 1000

Min(a, b) == IF a < b THEN a ELSE b

\* s[:n]
Take(s, n) == SubSeq(s, 1, Min(n, Len(s)))

\* sorted() of a list of integers: the i-th element is the value with fewer
\* than i smaller elements and at least i elements not above it
SortedInts(s) ==
    [i \in 1..Len(s) |->
        CHOOSE x \in {s[j] : j \in 1..Len(s)} :
            /\ Cardinality({j \in 1..Len(s) : s[j] < x}) < i
            /\ Cardinality({j \in 1..Len(s) : s[j] <= x}) >= i]

\* tuple(numbers) + (special,), as a member of existing_combinations
ComboOfInts_SpecialDropped(numbers, special) ==
    [i \in 1..5 |-> PyInt(numbers[i])]

ComboOfInts(numbers, special) ==
    [i \in 1..6 |-> IF i <= 5 THEN PyInt(numbers[i]) ELSE PyInt(special)]

\* the numbers of the keys of a table in the order of the table, which is
\* 1, 2, ..., max (lines 661-662)
TableOrder(freq) ==
    SelectSeq([i \in 1..99 |-> i], LAMBDA i : IntToStr(i) \in DOMAIN freq)

\* the highest count of a table
HighestCount(freq) ==
    CHOOSE c \in {freq[k] : k \in DOMAIN freq} : \A k \in DOMAIN freq : freq[k] <= c

RECURSIVE FromCount(_, _, _)
\* the numbers with count c in the order of the table, then those with the
\* counts below c, from the highest of these counts down
FromCount(freq, order, c) ==
    LET lower == {freq[k] : k \in DOMAIN freq} \cap (0..(c - 1))
    IN  SelectSeq(order, LAMBDA i : freq[IntToStr(i)] = c)
            \o (IF lower = {} THEN <<>>
                ELSE FromCount(freq, order, CHOOSE d \in lower : \A e \in lower : e <= d))

\* [int(num) for num, _ in sorted(freq.items(), key=lambda x: int(x[1]),
\* reverse=True)]: by count, highest first; the sort is stable, so equal counts
\* keep the order of the table
SortedByFrequency(freq) ==
    IF DOMAIN freq = {} THEN <<>>
    ELSE CHOOSE sorted \in {FromCount(freq, order, HighestCount(freq)) :
                               order \in {TableOrder(freq)}} : TRUE

\* lines 192-203, without the sorted() of line 197
optimized_by_general_frequency_repeat_Unsorted(frequency_, special_frequency_) ==
    LET sorted_regular == SortedByFrequency(frequency_)
        sorted_special == SortedByFrequency(special_frequency_)
        best_special == IF sorted_special # <<>> THEN sorted_special[1] ELSE 1
    IN  Take(sorted_regular, 5) \o <<best_special>>

\* lines 192-203
optimized_by_general_frequency_repeat(frequency_, special_frequency_) ==
    LET sorted_regular == SortedByFrequency(frequency_)
        sorted_special == SortedByFrequency(special_frequency_)
        optimized_regular == SortedInts(Take(sorted_regular, 5))
        best_special == IF sorted_special # <<>> THEN sorted_special[1] ELSE 1
    IN  optimized_regular \o <<best_special>>

\* the outcome of a search: a combination returned from inside the loops, or
\* the loops left without returning
NotFound == [found |-> FALSE, result |-> <<>>]
Found(result) == [found |-> TRUE, result |-> result]

\* lines 246-252: the specials s[i..] for which the combination is not in the set
FreeSpecials(numbers, specials, existing) ==
    CHOOSE free \in {{i \in 1..Len(specials) :
                         ComboOfInts(candidates_sorted, specials[i]) \notin existing} :
                     candidates_sorted \in {SortedInts(numbers)}} : TRUE

\* the numbers the five nested loops of lines 227-231 select in their
\* iteration numbered t (0-based), w being the length of sorted_regular[:10]
GeneralCandidates(sorted_regular, w, t) ==
    <<sorted_regular[(t \div (w * w * w * w)) + 1],
      sorted_regular[((t \div (w * w * w)) % w) + 1],
      sorted_regular[((t \div (w * w)) % w) + 1],
      sorted_regular[((t \div w) % w) + 1],
      sorted_regular[(t % w) + 1]>>

\* len(set(candidates)) = 5 (lines 242 and 333)
AllDistinct_Unchecked(numbers) == Len(numbers) = 5

AllDistinct(numbers) ==
    Cardinality({numbers[1], numbers[2], numbers[3], numbers[4], numbers[5]}) = 5

Least(S) == CHOOSE x \in S : \A y \in S : x <= y

\* lines 227-252: attempts counts the iterations; once it has reached the cap
\* every iteration breaks at once, so only the first max_attempts iterations
\* test anything.  The result is that of the first iteration that returns.
GeneralSearch(sorted_regular, sorted_special, existing) ==
    LET n == Len(sorted_regular)
        w == Min(10, n)
        iterations == Min(20, n) * w * w * w * w
        max_attempts == MaxAttempts
        tested == Min(max_attempts, iterations)
        specials == Take(sorted_special, 10)
        Returns(t) ==
            /\ AllDistinct(GeneralCandidates(sorted_regular, w, t))
            /\ FreeSpecials(GeneralCandidates(sorted_regular, w, t), specials, existing) # {}
        Outcome(candidates) ==
            Found(SortedInts(candidates)
                    \o <<specials[Least(FreeSpecials(candidates, specials, existing))]>>)
    IN  IF \E t \in 0..(tested - 1) : Returns(t)
        THEN CHOOSE x \in
                 {Outcome(GeneralCandidates(sorted_regular, w, first)) :
                     first \in {CHOOSE t \in 0..(tested - 1) :
                                   Returns(t) /\ \A u \in 0..(t - 1) : ~Returns(u)}} : TRUE
        ELSE NotFound

\* lines 219-255 (the two sorted lists are computed once, then searched)
optimized_by_general_frequency_no_repeat(frequency_, special_frequency_, existing) ==
    LET r == CHOOSE x \in {GeneralSearch(sr, ss, existing) :
                              sr \in {SortedByFrequency(frequency_)},
                              ss \in {SortedByFrequency(special_frequency_)}} : TRUE
    IN  IF r.found THEN r.result
        ELSE optimized_by_general_frequency_repeat(frequency_, special_frequency_)

\* lines 268-287, with the five numbers sorted before they are returned
optimized_by_position_frequency_repeat_Sorted(position_frequency_, special_frequency_) ==
    LET best(pos) ==
            IF PosKey(pos) \in DOMAIN position_frequency_
            THEN CHOOSE number \in
                     {IF sorted_pos # <<>> THEN sorted_pos[1] ELSE 1 :
                         sorted_pos \in {SortedByFrequency(position_frequency_[PosKey(pos)])}} :
                     TRUE
            ELSE 1
        sorted_special == SortedByFrequency(special_frequency_)
        best_special == IF sorted_special # <<>> THEN sorted_special[1] ELSE 1
    IN  SortedInts(<<best(0), best(1), best(2), best(3), best(4)>>) \o <<best_special>>

\* lines 268-287
optimized_by_position_frequency_repeat(position_frequency_, special_frequency_) ==
    LET best(pos) ==
            IF PosKey(pos) \in DOMAIN position_frequency_
            THEN CHOOSE number \in
                     {IF sorted_pos # <<>> THEN sorted_pos[1] ELSE 1 :
                         sorted_pos \in {SortedByFrequency(position_frequency_[PosKey(pos)])}} :
                     TRUE
            ELSE 1
        sorted_special == SortedByFrequency(special_frequency_)
        best_special == IF sorted_special # <<>> THEN sorted_special[1] ELSE 1
    IN  <<best(0), best(1), best(2), best(3), best(4), best_special>>

\* the numbers the five nested loops of lines 324-328 select in their
\* iteration numbered u (0-based), w[p] being the length of the p-th list
PositionCandidates(cands, w, u) ==
    <<cands[1][(u \div (w[5] * w[4] * w[3] * w[2])) + 1],
      cands[2][((u \div (w[5] * w[4] * w[3])) % w[2]) + 1],
      cands[3][((u \div (w[5] * w[4])) % w[3]) + 1],
      cands[4][((u \div w[5]) % w[4]) + 1],
      cands[5][(u % w[5]) + 1]>>

\* lines 324-343: attempts counts the combinations tested against the set (one
\* per special of a selection of 5 distinct numbers); once it has reached the
\* cap nothing is tested any more.  The result is that of the first test that
\* returns, if the cap allows it.
PositionSearch(cands, specials, existing) ==
    LET w == [p \in 1..5 |-> Len(cands[p])]
        iterations == w[1] * w[2] * w[3] * w[4] * w[5]
        max_attempts == MaxAttempts
        Returns(u) ==
            /\ AllDistinct(PositionCandidates(cands, w, u))
            /\ FreeSpecials(PositionCandidates(cands, w, u), specials, existing) # {}
        Tests(n) ==
            Len(specials) * Cardinality({v \in 0..(n - 1) :
                                            AllDistinct(PositionCandidates(cands, w, v))})
        Outcome(first, special, attempts_before) ==
            IF attempts_before + special - 1 < max_attempts
            THEN Found(PositionCandidates(cands, w, first) \o <<specials[special]>>)
            ELSE NotFound
    IN  IF \E u \in 0..(iterations - 1) : Returns(u)
        THEN CHOOSE x \in
                 {Outcome(first,
                          Least(FreeSpecials(PositionCandidates(cands, w, first),
                                             specials, existing)),
                          Tests(first)) :
                     first \in {CHOOSE u \in 0..(iterations - 1) :
                                   Returns(u) /\ \A v \in 0..(u - 1) : ~Returns(v)}} : TRUE
        ELSE NotFound

\* lines 303-346 (the candidate lists are computed once, then searched)
optimized_by_position_frequency_no_repeat(position_frequency_, special_frequency_, existing) ==
    LET candidates(pos) ==
            IF PosKey(pos) \in DOMAIN position_frequency_
            THEN CHOOSE list \in
                     {IF Take(sorted_pos, 10) # <<>> THEN Take(sorted_pos, 10) ELSE <<1>> :
                         sorted_pos \in {SortedByFrequency(position_frequency_[PosKey(pos)])}} :
                     TRUE
            ELSE <<1>>
        position_candidates == [p \in 1..5 |-> Take(candidates(p - 1), 5)]
        sorted_special == SortedByFrequency(special_frequency_)
        special_candidates ==
            IF sorted_special # <<>> THEN Take(sorted_special, 10) ELSE <<1>>
        r == CHOOSE x \in {PositionSearch(pc_, sc_, existing) :
                              pc_ \in {position_candidates},
                              sc_ \in {Take(special_candidates, 5)}} : TRUE
    IN  IF r.found THEN r.result
        ELSE optimized_by_position_frequency_repeat(position_frequency_,
                                                    special_frequency_)

\* the placeholder of lines 714-717
DefaultCombination_Zeros == <<0, 0, 0, 0, 0, 0>>

DefaultCombination == <<1, 2, 3, 4, 5, 1>>

----------------------------------------------------------------------------
\* Residuals.  A residual is kept as the quotient it was computed from: the
\* difference observed - expected and the squared standard deviation it was
\* divided by the root of; the literal 0.0 of the degenerate branches is
\* NoResidual, for which no division was performed.

NoResidual == [divided |-> FALSE, diff |-> Zero, var |-> Zero]
Residual(diff, var) == [divided |-> TRUE, diff |-> diff, var |-> var]

\* abs(residual) > t, for a threshold t > 0
AbsGreater(r, t) ==
    /\ r.divided
    /\ \E bound \in {RMul(RMul(t, t), r.var)}, square \in {RMul(r.diff, r.diff)} :
          FractionLess(bound[1], bound[2], square[1], square[2])

\* the thresholds of lines 428, 563 and 565: 2.0, 1.96 and 2.58
OverallThreshold == <<2, 1>>

SignificantThreshold_Overall == <<2, 1>>

SignificantThreshold == <<49, 25>>
VerySignificantThreshold == <<129, 50>>

\* n * p * (1 - p), the square of the binomial standard deviation (lines 403-405)
BinomialVariance_Poisson(n, p) == RMul(FromInt(n), p)

BinomialVariance(n, p) == RMul(FromInt(n), RMul(p, RSub(One, p)))

\* lines 547-550: the squared std_dev of a per-position entry
PositionVariance_Poisson(total_draws, probability) ==
    IF RLess(Zero, probability) /\ RLess(probability, One)
    THEN RMul(FromInt(total_draws), probability)
    ELSE Zero

PositionVariance(total_draws, probability) ==
    IF RLess(Zero, probability) /\ RLess(probability, One)
    THEN RMul(FromInt(total_draws), RMul(probability, RSub(One, probability)))
    ELSE Zero

\* lines 362-432.  (A probability above 1, which needs max_number < 5 for the
\* regular table, makes math.sqrt raise; the model keeps max_number >= 5.)
calculate_standardized_residuals(frequency_dict, total_draws, max_number, actual_draws) ==
    LET expected == IF total_draws = 0 THEN Zero ELSE Rat(total_draws, max_number)
        numbers_per_draw ==
            IF actual_draws > 0 THEN Rat(total_draws, actual_draws) ELSE Zero
        probability ==
            IF max_number > 0 THEN RDiv(numbers_per_draw, FromInt(max_number)) ELSE Zero
        variance ==
            IF actual_draws > 0 /\ RLess(Zero, probability)
            THEN BinomialVariance(actual_draws, probability)
            ELSE Zero
        percent(observed) ==
            IF total_draws > 0 THEN Rat(observed * 100, total_draws) ELSE Zero
        degenerate == total_draws = 0 \/ expected = Zero \/ variance = Zero
        residual(observed) == Residual(RSub(FromInt(observed), expected), variance)
    IN  [number \in DOMAIN frequency_dict |->
            IF degenerate
            THEN [observed |-> frequency_dict[number],
                  expected |-> expected,
                  residual |-> NoResidual,
                  significant |-> FALSE,
                  percent |-> percent(frequency_dict[number])]
            ELSE [observed |-> frequency_dict[number],
                  expected |-> expected,
                  residual |-> residual(frequency_dict[number]),
                  significant |-> AbsGreater(residual(frequency_dict[number]),
                                             OverallThreshold),
                  percent |-> percent(frequency_dict[number])]]

\* lines 535-574: the entry of one number at one position, total_draws > 0
PositionEntry(num_str, observed, pos, total_draws, max_number) ==
    LET num == StrToInt(num_str)
        observed_count == observed
        p == calculate_exact_position_probability(num, pos, max_number)
        probability == Rat(p[1], p[2])
        expected == RMul(probability, FromInt(total_draws))
        std_dev_squared == PositionVariance(total_draws, probability)
        residual ==
            IF RLess(Zero, std_dev_squared)
            THEN Residual(RSub(FromInt(observed_count), expected), std_dev_squared)
            ELSE NoResidual
        percent ==
            IF total_draws > 0 THEN Rat(observed_count * 100, total_draws) ELSE Zero
    IN  [observed |-> observed_count,
         expected |-> expected,
         residual |-> residual,
         significant |-> AbsGreater(residual, SignificantThreshold),
         verySignificant |-> AbsGreater(residual, VerySignificantThreshold),
         percent |-> percent]

\* lines 502-578; frequency_at_position has the keys "0" .. "4"
calculate_exact_position_specific_residuals(frequency_at_position, total_draws, max_number) ==
    [pos_str \in {IntToStr(pos) : pos \in 0..4} |->
        IF pos_str \notin DOMAIN frequency_at_position THEN <<>>
        ELSE IF total_draws = 0
        THEN [num \in DOMAIN frequency_at_position[pos_str] |->
                [observed |-> frequency_at_position[pos_str][num],
                 expected |-> Zero,
                 residual |-> NoResidual,
                 significant |-> FALSE,
                 percent |-> Zero]]
        ELSE [num_str \in DOMAIN frequency_at_position[pos_str] |->
                PositionEntry(num_str, frequency_at_position[pos_str][num_str],
                              StrToInt(pos_str), total_draws, max_number)]]

\* lines 711-767: the optimized combinations, the residual tables and the
\* returned record
BuildStats(c, existing, lottery_type, max_regular, max_special) ==
    LET optimized_general_repeat ==
            IF c.valid_draws = 0 THEN DefaultCombination
            ELSE optimized_by_general_frequency_repeat(c.frequency, c.special_frequency)
        optimized_general_no_repeat ==
            IF c.valid_draws = 0 THEN DefaultCombination
            ELSE optimized_by_general_frequency_no_repeat(c.frequency,
                                                          c.special_frequency, existing)
        optimized_position_repeat ==
            IF c.valid_draws = 0 THEN DefaultCombination
            ELSE optimized_by_position_frequency_repeat(c.position_frequency,
                                                        c.special_frequency)
        optimized_position_no_repeat ==
            IF c.valid_draws = 0 THEN DefaultCombination
            ELSE optimized_by_position_frequency_no_repeat(c.position_frequency,
                                                           c.special_frequency, existing)
        regular_residuals ==
            calculate_standardized_residuals(c.frequency, c.valid_draws * 5,
                                             max_regular, c.valid_draws)
        special_residuals ==
            calculate_standardized_residuals(c.special_frequency, c.valid_draws,
                                             max_special, c.valid_draws)
        position_freq_dict ==
            [pos_num \in {StripPosition(k) : k \in DOMAIN c.position_frequency} |->
                c.position_frequency["position" \o pos_num]]
        position_residuals ==
            calculate_exact_position_specific_residuals(position_freq_dict,
                                                        c.valid_draws, max_regular)
        position_residuals_formatted ==
            [pos_key \in {"position" \o pos_num : pos_num \in DOMAIN position_residuals} |->
                position_residuals[StripPosition(pos_key)]]
    IN  [type |-> lottery_type,
         totalDraws |-> c.valid_draws,
         optimizedByGeneralFrequencyRepeat |-> optimized_general_repeat,
         optimizedByGeneralFrequencyNoRepeat |-> optimized_general_no_repeat,
         optimizedByPositionFrequencyRepeat |-> optimized_position_repeat,
         optimizedByPositionFrequencyNoRepeat |-> optimized_position_no_repeat,
         regularNumbers |-> regular_residuals,
         specialBallNumbers |-> special_residuals,
         byPosition |-> position_residuals_formatted]

NoStats == [type |-> "none"]

\* lines 711-725 alone: the record as far as the optimized combinations
BuildOptimized(c, existing, lottery_type) ==
    [type |-> lottery_type,
     totalDraws |-> c.valid_draws,
     optimizedByGeneralFrequencyRepeat |->
        IF c.valid_draws = 0 THEN DefaultCombination
        ELSE optimized_by_general_frequency_repeat(c.frequency, c.special_frequency),
     optimizedByGeneralFrequencyNoRepeat |->
        IF c.valid_draws = 0 THEN DefaultCombination
        ELSE optimized_by_general_frequency_no_repeat(c.frequency, c.special_frequency,
                                                      existing),
     optimizedByPositionFrequencyRepeat |->
        IF c.valid_draws = 0 THEN DefaultCombination
        ELSE optimized_by_position_frequency_repeat(c.position_frequency,
                                                    c.special_frequency),
     optimizedByPositionFrequencyNoRepeat |->
        IF c.valid_draws = 0 THEN DefaultCombination
        ELSE optimized_by_position_frequency_no_repeat(c.position_frequency,
                                                       c.special_frequency, existing)]

\* the two game configurations, lines 107-112
MegaMillionsMaxRegular == 70
MegaMillionsMaxSpecial == 25
PowerballMaxRegular == 69
PowerballMaxSpecial == 26

NoResiduals == <<>>

EntryIdle == arg_total_draws = 0 /\ arg_observed = 0 /\ returned_residuals = NoResiduals
ProbIdle ==
    /\ prob_pc = "idle" /\ arg_number = 0 /\ arg_position = 0 /\ arg_max_number = 0
    /\ returned_probability = Zero
    /\ EntryIdle
\* no strategy has been called
NoCombo == <<>>

\* the files of DATA_DIR and of the bucket that the scraper reads and writes
DataFiles == {"mm.json", "pb.json"}
StatsFiles == {"mm-stats.json", "pb-stats.json"}
FileNames == DataFiles \cup StatsFiles

\* a file that does not exist, and the JSON documents a file can hold: a list
\* of draws, a statistics record, null
NoFile == [kind |-> "absent"]
JsonList(ds) == [kind |-> "list", draws |-> ds]
JsonStats(record) == [kind |-> "stats", record |-> record]
JsonNull == [kind |-> "null"]

NoSave == [draws |-> <<>>, filename |-> "none"]

\* no scraper is running
ScraperIdle ==
    /\ files = [name \in FileNames |-> NoFile]
    /\ bucket = [name \in FileNames |-> NoFile]
    /\ run_pc = "idle" /\ scrape_pc = "idle"
    /\ latest_draws = <<>> /\ all_draws = <<>>
    /\ any_new_draws = FALSE
    /\ save_args = NoSave /\ new_draws_added = FALSE
    /\ calls = <<>>

StrategiesIdle ==
    /\ search_pc = "idle" /\ top_regular = <<>> /\ top_special = <<>>
    /\ top_by_position = <<>> /\ top_special_5 = <<>>
    /\ attempts = 0 /\ loop_index = 0 /\ special_index = 0
    /\ combo = NoCombo /\ search_result = <<>>
    /\ returned_verified = FALSE

SearchIdle == StrategiesIdle /\ ScraperIdle

SumIdle == sum_k = 0 /\ sum_acc = Zero /\ SearchIdle
AggIdle ==
    /\ draws = <<>> /\ arg_max_regular = 0 /\ arg_max_special = 0 /\ pc = "idle" /\ idx = 1 /\ valid_draws = 0
    /\ frequency = <<>> /\ special_frequency = <<>> /\ position_frequency = <<>>
    /\ existing_combinations = {} /\ stats = NoStats

----------------------------------------------------------------------------
\* Actions of calculate_stats_for_type

Init ==
    /\ draws \in DrawLists
    /\ \E g \in GameConfigs : arg_max_regular = g.max_regular /\ arg_max_special = g.max_special
    /\ pc = "start"
    /\ idx = 1
    /\ valid_draws = 0
    /\ frequency = <<>>
    /\ special_frequency = <<>>
    /\ position_frequency = <<>>
    /\ existing_combinations = {}
    /\ stats = NoStats
    /\ ProbIdle
    /\ SumIdle

\* lines 658-663; an exception of get_existing_combinations propagates
GetExisting ==
    /\ pc = "start"
    /\ LET r == get_existing_combinations(draws)
       IN  /\ pc' = IF r.raised THEN "raised" ELSE "loop"
           /\ existing_combinations' = r.existing
    /\ valid_draws' = InitCounters(arg_max_regular, arg_max_special).valid_draws
    /\ frequency' = InitCounters(arg_max_regular, arg_max_special).frequency
    /\ special_frequency' = InitCounters(arg_max_regular, arg_max_special).special_frequency
    /\ position_frequency' = InitCounters(arg_max_regular, arg_max_special).position_frequency
    /\ UNCHANGED <<draws, arg_max_regular, arg_max_special, idx, stats>>
    /\ UNCHANGED <<probVars, entryVars, sumVars, searchVars, returned_verified, scraperVars>>

\* one iteration of the loop of lines 666-698
ProcessDraw ==
    /\ pc = "loop"
    /\ idx <= Len(draws)
    /\ LET r == ProcessOne(Counters, draws[idx], arg_max_regular, arg_max_special)
       IN  IF r.raised
           THEN /\ pc' = "raised"
                /\ UNCHANGED <<idx, valid_draws, frequency, special_frequency,
                               position_frequency>>
           ELSE /\ pc' = "loop"
                /\ idx' = idx + 1
                /\ valid_draws' = r.c.valid_draws
                /\ frequency' = r.c.frequency
                /\ special_frequency' = r.c.special_frequency
                /\ position_frequency' = r.c.position_frequency
    /\ UNCHANGED <<draws, arg_max_regular, arg_max_special, existing_combinations, stats>>
    /\ UNCHANGED <<probVars, entryVars, sumVars, searchVars, returned_verified, scraperVars>>

\* lines 700-769, once the loop has run out of draws
Finish ==
    /\ pc = "loop"
    /\ idx > Len(draws)
    /\ stats' = BuildStats(Counters, existing_combinations, "lottery",
                          arg_max_regular, arg_max_special)
    /\ pc' = "done"
    /\ UNCHANGED <<draws, arg_max_regular, arg_max_special, idx, valid_draws, frequency,
                   special_frequency, position_frequency, existing_combinations>>
    /\ UNCHANGED <<probVars, entryVars, sumVars, searchVars, returned_verified, scraperVars>>

Next == GetExisting \/ ProcessDraw \/ Finish

Spec == Init /\ [][Next]_vars

----------------------------------------------------------------------------
\* calculate_stats_for_type as calculate_lottery_stats calls it (lines 107-112),
\* with the sizes of the two games, up to the optimized combinations of lines
\* 711-725.  (The residual tables that follow do not enter the combinations;
\* their per-position probabilities have denominators of C(70, 5) and C(69, 5),
\* beyond the exact arithmetic of the model.)

RealGameConfigs ==
    { [max_regular |-> MegaMillionsMaxRegular, max_special |-> MegaMillionsMaxSpecial],
      [max_regular |-> PowerballMaxRegular, max_special |-> PowerballMaxSpecial] }

\* draws of the two games: the lowest numbers in and out of order, higher
\* numbers with the highest special ball, a number above both ranges, a scalar
RealDrawPool ==
    { DictDraw(PyList(Ints(<<1, 2, 3, 4, 5>>)), PyInt(1)),
      DictDraw(PyList(Ints(<<1, 2, 3, 4, 5>>)), PyInt(2)),
      DictDraw(PyList(Ints(<<5, 4, 3, 2, 1>>)), PyInt(1)),
      DictDraw(PyList(Ints(<<6, 7, 8, 9, PowerballMaxRegular>>)), PyInt(MegaMillionsMaxSpecial)),
      DictDraw(PyList(Ints(<<1, 2, 3, 4, MegaMillionsMaxRegular + 1>>)), PyInt(1)),
      ScalarDraw }

RealDrawLists == UNION {[1..n -> RealDrawPool] : n \in 0..MaxDraws}

InitGame ==
    /\ draws \in RealDrawLists
    /\ \E g \in RealGameConfigs :
          arg_max_regular = g.max_regular /\ arg_max_special = g.max_special
    /\ pc = "start"
    /\ idx = 1
    /\ valid_draws = 0
    /\ frequency = <<>>
    /\ special_frequency = <<>>
    /\ position_frequency = <<>>
    /\ existing_combinations = {}
    /\ stats = NoStats
    /\ ProbIdle
    /\ SumIdle

\* lines 700-725, once the loop has run out of draws
OptimizeCombinations ==
    /\ pc = "loop"
    /\ idx > Len(draws)
    /\ stats' = BuildOptimized(Counters, existing_combinations, "lottery")
    /\ pc' = "optimized"
    /\ UNCHANGED <<draws, arg_max_regular, arg_max_special, idx, valid_draws, frequency,
                   special_frequency, position_frequency, existing_combinations>>
    /\ UNCHANGED <<probVars, entryVars, sumVars, searchVars, returned_verified, scraperVars>>

NextGame == GetExisting \/ ProcessDraw \/ OptimizeCombinations

SpecGame == InitGame /\ [][NextGame]_vars

----------------------------------------------------------------------------
\* The two no-repeat strategies as calculate_stats_for_type calls them (lines
\* 722 and 725), one step per iteration of their innermost loops.

\* the 4 of the numbers 1..5 other than x, in ascending order
AllButOne(x) == SelectSeq(<<1, 2, 3, 4, 5>>, LAMBDA n : n # x)

\* A history in which every combination the position strategy can form from
\* its candidates has been drawn: the numbers 1..5, and every 4 of them with
\* 6, each with every special ball of 1..5.  The five most frequent numbers of
\* the positions 0..3 are then 1..5, those of position 4 are 6, 5, 1, 2, 3.
SaturatedDraws ==
    [i \in 1..30 |->
        DictDraw(PyList(Ints(IF i <= 5 THEN <<1, 2, 3, 4, 5>>
                             ELSE AllButOne((i - 1) \div 5) \o <<6>>)),
                 PyInt(1 + ((i - 1) % 5)))]

\* the calls: every combination of the one-special game drawn, a game with a
\* free special ball, and Mega Millions with the saturated history
SearchInputs ==
    { [draws |-> <<DictDraw(PyList(Ints(<<1, 2, 3, 4, 5>>)), PyInt(1))>>,
       max_regular |-> NumbersPerDraw, max_special |-> 1],
      [draws |-> <<DictDraw(PyList(Ints(<<1, 2, 3, 4, 5>>)), PyInt(1))>>,
       max_regular |-> MaxRegular, max_special |-> MaxSpecial],
      [draws |-> <<DictDraw(PyList(Ints(<<MaxRegular, 1, 2, 3, 4>>)), PyInt(MaxSpecial)),
                   DictDraw(PyList(Ints(<<1, 2, 3, 4, 5>>)), PyInt(1))>>,
       max_regular |-> MaxRegular, max_special |-> MaxSpecial],
      [draws |-> SaturatedDraws,
       max_regular |-> MegaMillionsMaxRegular, max_special |-> MegaMillionsMaxSpecial] }

InitSearch ==
    /\ \E input \in SearchInputs :
          /\ draws = input.draws
          /\ arg_max_regular = input.max_regular
          /\ arg_max_special = input.max_special
    /\ pc = "start"
    /\ idx = 1
    /\ valid_draws = 0
    /\ frequency = <<>>
    /\ special_frequency = <<>>
    /\ position_frequency = <<>>
    /\ existing_combinations = {}
    /\ stats = NoStats
    /\ ProbIdle
    /\ SumIdle

\* attempts >= max_attempts (lines 232 and 336)
CapReached_OneLate(n) == n > MaxAttempts

CapReached(n) == n >= MaxAttempts

\* lines 219-225, called at line 722
StartGeneral ==
    /\ pc = "loop"
    /\ idx > Len(draws)
    /\ valid_draws > 0
    /\ search_pc = "idle"
    /\ top_regular' = SortedByFrequency(frequency)
    /\ top_special' = Take(SortedByFrequency(special_frequency), 10)
    /\ attempts' = 0
    /\ loop_index' = 0
    /\ search_pc' = "general_loop"
    /\ UNCHANGED <<top_by_position, top_special_5, special_index, combo, search_result>>
    /\ UNCHANGED <<aggVars, probVars, entryVars, sum_k, sum_acc, returned_verified, scraperVars>>

\* min(10, len(sorted_regular)), the range of the four inner loops
GeneralWidth == Min(10, Len(top_regular))

GeneralIterations ==
    Min(20, Len(top_regular)) * GeneralWidth * GeneralWidth * GeneralWidth * GeneralWidth

\* lines 227-243: one iteration of the innermost loop, up to the loop over the
\* special balls.  At the cap the loop over m is left.
GeneralIterate ==
    /\ search_pc = "general_loop"
    /\ loop_index < GeneralIterations
    /\ IF CapReached(attempts)
       THEN /\ loop_index' = ((loop_index \div GeneralWidth) + 1) * GeneralWidth
            /\ UNCHANGED <<attempts, search_pc, special_index>>
       ELSE /\ attempts' = attempts + 1
            /\ IF /\ AllDistinct(GeneralCandidates(top_regular, GeneralWidth, loop_index))
                  /\ top_special # <<>>
               THEN /\ search_pc' = "general_special"
                    /\ special_index' = 1
                    /\ UNCHANGED loop_index
               ELSE /\ loop_index' = loop_index + 1
                    /\ UNCHANGED <<search_pc, special_index>>
    /\ UNCHANGED <<top_regular, top_special, top_by_position, top_special_5, combo,
                   search_result>>
    /\ UNCHANGED <<aggVars, probVars, entryVars, sum_k, sum_acc, returned_verified, scraperVars>>

\* lines 246-252: one iteration of the loop over sorted_special[:10]
GeneralTest ==
    /\ search_pc = "general_special"
    /\ LET candidates_sorted ==
               SortedInts(GeneralCandidates(top_regular, GeneralWidth, loop_index))
           special_ball == top_special[special_index]
       IN  /\ combo' = ComboOfInts(candidates_sorted, special_ball)
           /\ IF combo' \notin existing_combinations
              THEN /\ search_result' = candidates_sorted \o <<special_ball>>
                   /\ search_pc' = "general_returned"
                   /\ UNCHANGED <<loop_index, special_index>>
              ELSE IF special_index < Len(top_special)
              THEN /\ special_index' = special_index + 1
                   /\ UNCHANGED <<search_pc, loop_index, search_result>>
              ELSE /\ search_pc' = "general_loop"
                   /\ loop_index' = loop_index + 1
                   /\ UNCHANGED <<special_index, search_result>>
    /\ UNCHANGED <<top_regular, top_special, top_by_position, top_special_5, attempts>>
    /\ UNCHANGED <<aggVars, probVars, entryVars, sum_k, sum_acc, returned_verified, scraperVars>>

\* line 255
GeneralFallback ==
    /\ search_pc = "general_loop"
    /\ loop_index >= GeneralIterations
    /\ search_result' = optimized_by_general_frequency_repeat(frequency, special_frequency)
    /\ search_pc' = "general_returned"
    /\ UNCHANGED <<top_regular, top_special, top_by_position, top_special_5, attempts,
                   loop_index, special_index, combo>>
    /\ UNCHANGED <<aggVars, probVars, entryVars, sum_k, sum_acc, returned_verified, scraperVars>>

\* the list of line 311: the numbers of one position by count, at most 10
CandidatesOf(pos) ==
    IF PosKey(pos) \in DOMAIN position_frequency
    THEN LET sorted_pos == SortedByFrequency(position_frequency[PosKey(pos)])
         IN  IF Take(sorted_pos, 10) # <<>> THEN Take(sorted_pos, 10) ELSE <<1>>
    ELSE <<1>>

\* lines 303-322, called at line 725
StartPosition ==
    /\ search_pc = "general_returned"
    /\ top_by_position' = [p \in 1..5 |-> Take(CandidatesOf(p - 1), 5)]
    /\ top_special_5' =
          LET sorted_special == SortedByFrequency(special_frequency)
          IN  IF sorted_special # <<>> THEN Take(Take(sorted_special, 10), 5) ELSE <<1>>
    /\ attempts' = 0
    /\ loop_index' = 0
    /\ special_index' = 0
    /\ combo' = NoCombo
    /\ search_result' = <<>>
    /\ top_regular' = <<>>
    /\ top_special' = <<>>
    /\ search_pc' = "position_loop"
    /\ UNCHANGED <<aggVars, probVars, entryVars, sum_k, sum_acc, returned_verified, scraperVars>>

PositionWidths == [p \in 1..5 |-> Len(top_by_position[p])]

PositionIterations ==
    PositionWidths[1] * PositionWidths[2] * PositionWidths[3] * PositionWidths[4]
        * PositionWidths[5]

\* lines 324-334: one iteration of the innermost loop, up to the loop over the
\* special balls
PositionIterate ==
    /\ search_pc = "position_loop"
    /\ loop_index < PositionIterations
    /\ IF AllDistinct(PositionCandidates(top_by_position, PositionWidths, loop_index))
       THEN /\ search_pc' = "position_special"
            /\ special_index' = 1
            /\ UNCHANGED loop_index
       ELSE /\ loop_index' = loop_index + 1
            /\ UNCHANGED <<search_pc, special_index>>
    /\ UNCHANGED <<top_regular, top_special, top_by_position, top_special_5, attempts,
                   combo, search_result>>
    /\ UNCHANGED <<aggVars, probVars, entryVars, sum_k, sum_acc, returned_verified, scraperVars>>

\* lines 335-343: one iteration of the loop over special_candidates[:5].  At
\* the cap the loop is left.
PositionTest ==
    /\ search_pc = "position_special"
    /\ LET numbers == PositionCandidates(top_by_position, PositionWidths, loop_index)
           special == top_special_5[special_index]
       IN  IF CapReached(attempts)
           THEN /\ search_pc' = "position_loop"
                /\ loop_index' = loop_index + 1
                /\ UNCHANGED <<attempts, special_index, combo, search_result>>
           ELSE /\ attempts' = attempts + 1
                /\ combo' = ComboOfInts(SortedInts(numbers), special)
                /\ IF combo' \notin existing_combinations
                   THEN /\ search_result' = numbers \o <<special>>
                        /\ search_pc' = "position_returned"
                        /\ UNCHANGED <<loop_index, special_index>>
                   ELSE IF special_index < Len(top_special_5)
                   THEN /\ special_index' = special_index + 1
                        /\ UNCHANGED <<search_pc, loop_index, search_result>>
                   ELSE /\ search_pc' = "position_loop"
                        /\ loop_index' = loop_index + 1
                        /\ UNCHANGED <<special_index, search_result>>
    /\ UNCHANGED <<top_regular, top_special, top_by_position, top_special_5>>
    /\ UNCHANGED <<aggVars, probVars, entryVars, sum_k, sum_acc, returned_verified, scraperVars>>

\* line 346
PositionFallback ==
    /\ search_pc = "position_loop"
    /\ loop_index >= PositionIterations
    /\ search_result' = optimized_by_position_frequency_repeat(position_frequency,
                                                               special_frequency)
    /\ search_pc' = "position_returned"
    /\ UNCHANGED <<top_regular, top_special, top_by_position, top_special_5, attempts,
                   loop_index, special_index, combo>>
    /\ UNCHANGED <<aggVars, probVars, entryVars, sum_k, sum_acc, returned_verified, scraperVars>>

NextSearch ==
    \/ GetExisting
    \/ ProcessDraw
    \/ StartGeneral
    \/ GeneralIterate
    \/ GeneralTest
    \/ GeneralFallback
    \/ StartPosition
    \/ PositionIterate
    \/ PositionTest
    \/ PositionFallback

SpecSearch == InitSearch /\ [][NextSearch]_vars

\* The strategies are straight-line code and loops run by one thread: once a
\* strategy is called, a step of it that can be taken is taken.
SpecSearchRuns ==
    SpecSearch /\ WF_vars(GeneralIterate \/ GeneralTest \/ GeneralFallback
                            \/ PositionIterate \/ PositionTest \/ PositionFallback)

----------------------------------------------------------------------------
\* Calls of calculate_exact_position_probability

ProbMaxNumbers == (1..MaxProbNumber) \cup {PowerballMaxRegular, MegaMillionsMaxRegular}

InitProb ==
    /\ AggIdle
    /\ SumIdle
    /\ prob_pc = "call"
    /\ arg_max_number \in ProbMaxNumbers
    /\ arg_number \in 0..(arg_max_number + 1)
    /\ arg_position \in -1..5
    /\ returned_probability = Zero
    /\ EntryIdle

CalcProbability ==
    /\ prob_pc = "call"
    /\ returned_probability' = calculate_exact_position_probability(arg_number, arg_position,
                                                           arg_max_number)
    /\ prob_pc' = "returned"
    /\ UNCHANGED <<arg_number, arg_position, arg_max_number>>
    /\ UNCHANGED <<aggVars, entryVars, sumVars, searchVars, returned_verified, scraperVars>>

NextProb == CalcProbability

SpecProb == InitProb /\ [][NextProb]_vars

\* The probabilities of one position, added up over the numbers 1..max_number
\* in the order of the loop of lines 535-540.
InitSum ==
    /\ AggIdle
    /\ prob_pc = "sum"
    /\ arg_max_number \in {n \in ProbMaxNumbers : n >= 5}
    /\ arg_position \in 0..4
    /\ arg_number = 0
    /\ returned_probability = Zero
    /\ EntryIdle
    /\ SearchIdle
    /\ sum_k = 1
    /\ sum_acc = Zero

SumStep ==
    /\ prob_pc = "sum"
    /\ sum_k <= arg_max_number
    /\ arg_number' = sum_k
    /\ returned_probability' = calculate_exact_position_probability(sum_k, arg_position,
                                                           arg_max_number)
    /\ sum_acc' = RAdd(sum_acc, returned_probability')
    /\ sum_k' = sum_k + 1
    /\ UNCHANGED <<prob_pc, arg_position, arg_max_number>>
    /\ UNCHANGED <<aggVars, entryVars, searchVars, returned_verified, scraperVars>>

NextSum == SumStep

SpecSum == InitSum /\ [][NextSum]_vars

----------------------------------------------------------------------------
\* Calls of the residual computations on the counts of one number: observed
\* occurrences among total_draws valid draws, for every game size and every
\* number and position.

\* an overall table of total_draws draws made of the numbers 1 and 2 only
RegularTable(max_number, total_draws, observed) ==
    [k \in RegularKeys(max_number) |->
        IF k = "1" THEN observed
        ELSE IF k = "2" THEN NumbersPerDraw * total_draws - observed
        ELSE 0]

\* a special table of total_draws draws with the special balls 1 and 2 only
SpecialTable(max_number, total_draws, observed) ==
    [k \in SpecialKeys(max_number) |->
        IF k = "1" THEN observed
        ELSE IF k = "2" THEN total_draws - observed
        ELSE 0]

InitEntry ==
    /\ AggIdle
    /\ SumIdle
    /\ prob_pc \in {"position_entry", "regular_table", "special_table"}
    /\ arg_max_number \in NumbersPerDraw..MaxProbNumber
    /\ arg_number \in 1..arg_max_number
    /\ arg_position \in 0..4
    /\ arg_total_draws \in 1..MaxEntryDraws
    /\ arg_observed \in 0..arg_total_draws
    /\ prob_pc # "position_entry" => arg_number = 1 /\ arg_position = 0
    /\ returned_probability = Zero
    /\ returned_residuals = NoResiduals

\* the body of the loop of lines 535-574
CalcPositionEntry ==
    /\ prob_pc = "position_entry"
    /\ returned_residuals' = PositionEntry(IntToStr(arg_number), arg_observed, arg_position,
                                           arg_total_draws, arg_max_number)
    /\ prob_pc' = "position_entry_returned"
    /\ UNCHANGED <<arg_number, arg_position, arg_max_number, returned_probability,
                   arg_total_draws, arg_observed>>
    /\ UNCHANGED <<aggVars, sumVars, searchVars, returned_verified, scraperVars>>

\* the call of lines 730-731
CalcRegularTable ==
    /\ prob_pc = "regular_table"
    /\ returned_residuals' =
          calculate_standardized_residuals(
              RegularTable(arg_max_number, arg_total_draws, arg_observed),
              arg_total_draws * 5, arg_max_number, arg_total_draws)
    /\ prob_pc' = "regular_table_returned"
    /\ UNCHANGED <<arg_number, arg_position, arg_max_number, returned_probability,
                   arg_total_draws, arg_observed>>
    /\ UNCHANGED <<aggVars, sumVars, searchVars, returned_verified, scraperVars>>

\* the call of lines 733-734
CalcSpecialTable ==
    /\ prob_pc = "special_table"
    /\ returned_residuals' =
          calculate_standardized_residuals(
              SpecialTable(arg_max_number, arg_total_draws, arg_observed),
              arg_total_draws, arg_max_number, arg_total_draws)
    /\ prob_pc' = "special_table_returned"
    /\ UNCHANGED <<arg_number, arg_position, arg_max_number, returned_probability,
                   arg_total_draws, arg_observed>>
    /\ UNCHANGED <<aggVars, sumVars, searchVars, returned_verified, scraperVars>>

NextEntry == CalcPositionEntry \/ CalcRegularTable \/ CalcSpecialTable

SpecEntry == InitEntry /\ [][NextEntry]_vars

----------------------------------------------------------------------------
\* Properties of the aggregation

RECURSIVE SumOver(_, _)
SumOver(f, keys) ==
    IF keys = {} THEN 0
    ELSE LET k == CHOOSE x \in keys : TRUE
         IN  f[k] + SumOver(f, keys \ {k})

\* sum(table.values())
SumValues(f) == SumOver(f, DOMAIN f)

\* the counters exist: the loop is running or the record has been returned
Aggregating == pc \in {"loop", "done"}

\* a structured record with 5 integers in [1, max_regular] and an integer
\* special ball in [1, max_special]
IsValidDraw(draw) ==
    /\ draw.isDict
    /\ draw.numbers.kind = "list"
    /\ Len(draw.numbers.elems) = NumbersPerDraw
    /\ \A i \in 1..Len(draw.numbers.elems) :
          /\ draw.numbers.elems[i].t \in {"int", "bool"}
          /\ draw.numbers.elems[i].v \in 1..arg_max_regular
    /\ draw.specialBall.t \in {"int", "bool"}
    /\ draw.specialBall.v \in 1..arg_max_special

ValidIndices(n) == {i \in 1..n : IsValidDraw(draws[i])}

\* C1: at every point of the aggregation and in the end, the overall counts
\* sum to 5 * valid_draws, the special counts to valid_draws, and the counts
\* of each position to valid_draws.
C1_SumsMatchValidDraws ==
    Aggregating =>
        /\ SumValues(frequency) = NumbersPerDraw * valid_draws
        /\ SumValues(special_frequency) = valid_draws
        /\ \A p \in 0..4 : SumValues(position_frequency[PosKey(p)]) = valid_draws

C1_Witness ==
    /\ pc = "done"
    /\ valid_draws >= 1
    /\ valid_draws < Len(draws)
    /\ SumValues(frequency) = NumbersPerDraw * valid_draws

\* C2: after each draw valid_draws is the number of valid draws processed so
\* far, and totalDraws of the returned record is the number of valid draws
\* of the input list.
C2_TotalDrawsCountsValidDraws ==
    /\ Aggregating => valid_draws = Cardinality(ValidIndices(idx - 1))
    /\ pc = "done" => stats.totalDraws = Cardinality(ValidIndices(Len(draws)))

C2_Witness ==
    /\ pc = "done"
    /\ stats.totalDraws = 1
    /\ Len(draws) = 2
    /\ \E i \in 1..2 : IsValidDraw(draws[i]) /\ MaxRegular \in {draws[i].numbers.elems[j].v : j \in 1..5}

RECURSIVE FoldDraws(_, _, _)
\* the counters the loop leaves after the draws ds[i..]
FoldDraws(c, ds, i) ==
    IF i > Len(ds) THEN c
    ELSE FoldDraws(ProcessOne(c, ds[i], arg_max_regular, arg_max_special).c, ds, i + 1)

\* C3: the counters after any prefix of the list are those of the same prefix
\* with its invalid draws removed, and the whole list has been gone through
\* when the record is returned.
C3_InvalidDrawsLeaveNoTrace ==
    /\ Aggregating =>
          Counters = FoldDraws(InitCounters(arg_max_regular, arg_max_special),
                               SelectSeq(SubSeq(draws, 1, idx - 1), IsValidDraw), 1)
    /\ pc = "done" => idx = Len(draws) + 1

C3_Witness ==
    /\ pc = "done"
    /\ Len(draws) = 2
    /\ ~IsValidDraw(draws[1])
    /\ draws[1].isDict /\ Len(draws[1].numbers.elems) = NumbersPerDraw
    /\ IsValidDraw(draws[2])
    /\ valid_draws = 1

\* the draws among the first n whose (p+1)-th smallest number is k
DrawsWithRank(n, p, k) ==
    {i \in ValidIndices(n) : PySorted(draws[i].numbers.elems)[p + 1].v = k}

\* C4: the count at position p of number k is the number of valid draws whose
\* (p+1)-th smallest number is k.
C4_PositionIsRank ==
    pc = "done" =>
        \A p \in 0..4 : \A k \in 1..arg_max_regular :
            position_frequency[PosKey(p)][IntToStr(k)]
                = Cardinality(DrawsWithRank(Len(draws), p, k))

\* C5: calculate_stats_for_type never raises.
C5_NeverRaises == pc # "raised"

----------------------------------------------------------------------------
\* Properties of the position probability

\* the sets of 5 distinct numbers of 1..n, and those whose (p+1)-th smallest is k
FiveSubsets(n) == {S \in SUBSET (1..n) : Cardinality(S) = NumbersPerDraw}
RankSubsets(n, k, p) ==
    {S \in FiveSubsets(n) : k \in S /\ Cardinality({x \in S : x < k}) = p}

\* n (n-1) (n-2) (n-3) (n-4) / 5!
FiveSubsetCount(n) == (n * (n - 1) * (n - 2) * (n - 3) * (n - 4)) \div 120

\* C6: for k in 1..max_number and p in 0..4 the numerator is the number of
\* 5-subsets of 1..max_number whose (p+1)-th smallest element is k and the
\* denominator the number of all 5-subsets (0.0 is returned when there is none).
C6_NumeratorCountsRankSubsets ==
    (/\ prob_pc = "returned"
     /\ arg_max_number <= MaxProbNumber
     /\ arg_number \in 1..arg_max_number
     /\ arg_position \in 0..4)
    => IF RankSubsets(arg_max_number, arg_number, arg_position) # {}
       THEN returned_probability =
                <<Cardinality(RankSubsets(arg_max_number, arg_number, arg_position)),
                  Cardinality(FiveSubsets(arg_max_number))>>
       ELSE returned_probability[1] = 0

C6_Witness ==
    /\ prob_pc = "returned"
    /\ arg_max_number = MaxProbNumber
    /\ arg_number = 4
    /\ arg_position = 2
    /\ returned_probability[1] > 1
    /\ returned_probability[2] = FiveSubsetCount(MaxProbNumber)

\* C7: the probability is 0 for p outside 0..4, for k outside 1..max_number
\* and for k outside p+1 .. max_number-(4-p); with max_number = 70, P(70, 4)
\* is not 0.
C7_ZeroOutsideRange ==
    prob_pc = "returned" =>
        /\ (\/ arg_position \notin 0..4
            \/ arg_number \notin 1..arg_max_number
            \/ arg_number < arg_position + 1
            \/ arg_number > arg_max_number - (4 - arg_position))
           => returned_probability[1] = 0
        /\ (/\ arg_max_number = MegaMillionsMaxRegular
            /\ arg_number = MegaMillionsMaxRegular
            /\ arg_position = 4)
           => returned_probability[1] # 0

C7_Witness ==
    /\ prob_pc = "returned"
    /\ arg_max_number = MegaMillionsMaxRegular
    /\ arg_number = MegaMillionsMaxRegular
    /\ arg_position = 0
    /\ returned_probability = Zero

\* C8: once the probabilities of a position have been added up over
\* k = 1..max_number, the numerators sum to the denominator C(max_number, 5).
C8_PositionProbabilitiesSumToOne ==
    (prob_pc = "sum" /\ sum_k = arg_max_number + 1) =>
        sum_acc = <<FiveSubsetCount(arg_max_number), FiveSubsetCount(arg_max_number)>>

C8_Witness ==
    /\ prob_pc = "sum"
    /\ sum_k = arg_max_number + 1
    /\ arg_max_number = MegaMillionsMaxRegular
    /\ arg_position = 2
    /\ sum_acc[1] = sum_acc[2]
    /\ sum_acc[2] > 1

----------------------------------------------------------------------------
\* Properties of the residual tables

\* n p (1 - p)
TrialsVariance(n, p) == RMul(FromInt(n), RMul(p, RSub(One, p)))

\* the entry has expected = p * trials and a residual that divides
\* observed - expected by the root of variance (0.0 when variance is 0)
EntryFollows(entry, trials, p, variance) ==
    /\ entry.expected = RMul(p, FromInt(trials))
    /\ entry.residual =
         IF variance = Zero THEN NoResidual
         ELSE Residual(RSub(FromInt(entry.observed), entry.expected), variance)

\* C9 as stated: the overall table divides by the root of
\* 5 valid_draws (1/max_regular) (1 - 1/max_regular).
C9_OverallVarianceOverSlots ==
    (pc = "done" /\ valid_draws > 0) =>
        /\ \A k \in DOMAIN stats.regularNumbers :
              EntryFollows(stats.regularNumbers[k], NumbersPerDraw * valid_draws,
                           Rat(1, arg_max_regular),
                           TrialsVariance(NumbersPerDraw * valid_draws,
                                          Rat(1, arg_max_regular)))
        /\ \A k \in DOMAIN stats.specialBallNumbers :
              EntryFollows(stats.specialBallNumbers[k], valid_draws,
                           Rat(1, arg_max_special),
                           TrialsVariance(valid_draws, Rat(1, arg_max_special)))

\* C9, amended: expected is 5 valid_draws / max_regular for the overall table
\* and valid_draws / max_special for the special table; the overall residual
\* divides by the root of valid_draws (5/max_regular) (1 - 5/max_regular), the
\* special one by the root of valid_draws (1/max_special) (1 - 1/max_special).
C9_OverallVarianceOverDraws ==
    (pc = "done" /\ valid_draws > 0) =>
        /\ \A k \in DOMAIN stats.regularNumbers :
              EntryFollows(stats.regularNumbers[k], NumbersPerDraw * valid_draws,
                           Rat(1, arg_max_regular),
                           TrialsVariance(valid_draws,
                                          Rat(NumbersPerDraw, arg_max_regular)))
        /\ \A k \in DOMAIN stats.specialBallNumbers :
              EntryFollows(stats.specialBallNumbers[k], valid_draws,
                           Rat(1, arg_max_special),
                           TrialsVariance(valid_draws, Rat(1, arg_max_special)))

C9_Witness ==
    /\ pc = "done"
    /\ valid_draws = MaxDraws
    /\ arg_max_regular = MaxRegular
    /\ stats.regularNumbers["1"].observed = MaxDraws
    /\ stats.regularNumbers["1"].residual.divided
    /\ stats.specialBallNumbers["1"].residual.divided

\* the number of 5-subsets of 1..n whose (p+1)-th smallest element is k
RankCount ==
    [n \in NumbersPerDraw..MaxRegular |->
        [k \in 1..n |-> [p \in 0..4 |-> Cardinality(RankSubsets(n, k, p))]]]

\* the exact probability that k is the (p+1)-th smallest of a draw
RankProbability(k, p) ==
    Rat(RankCount[arg_max_regular][k][p], FiveSubsetCount(arg_max_regular))

\* C10: a per-position entry has expected = P(k,p) * valid_draws and divides
\* observed - expected by the root of valid_draws P (1 - P); its residual is
\* the literal 0.0 when P is 0 or 1.
C10_PositionResiduals ==
    (pc = "done" /\ valid_draws > 0) =>
        \A p \in 0..4 : \A k \in 1..arg_max_regular :
            /\ stats.byPosition[PosKey(p)][IntToStr(k)].observed
                  = position_frequency[PosKey(p)][IntToStr(k)]
            /\ EntryFollows(stats.byPosition[PosKey(p)][IntToStr(k)], valid_draws,
                            RankProbability(k, p),
                            TrialsVariance(valid_draws, RankProbability(k, p)))
            /\ RankProbability(k, p) \in {Zero, One}
                  => ~stats.byPosition[PosKey(p)][IntToStr(k)].residual.divided

C10_Witness ==
    /\ pc = "done"
    /\ valid_draws > 0
    /\ arg_max_regular = MaxRegular
    /\ stats.byPosition[PosKey(0)][IntToStr(MaxRegular)].observed = 1
    /\ ~stats.byPosition[PosKey(0)][IntToStr(MaxRegular)].residual.divided
    /\ stats.byPosition[PosKey(0)]["1"].residual.divided

----------------------------------------------------------------------------
\* Properties of the significance flags

\* |residual| > t[1]/t[2] for the residual (observed - n P) / sqrt(n P (1 - P))
\* of a count with P = num/tot, 0 < num < tot:
\* (observed tot - n num)^2 / (n num (tot - num)) > t^2
CountExceeds(observed, n, num, tot, t) ==
    FractionLess(t[1] * t[1], t[2] * t[2],
                 (observed * tot - n * num) * (observed * tot - n * num),
                 n * num * (tot - num))

\* the same for an entry of the per-position table; the residual is 0.0 when P
\* is 0 or 1
PositionExceeds(t) ==
    LET p == calculate_exact_position_probability(arg_number, arg_position, arg_max_number)
    IN  /\ 0 < p[1] /\ p[1] < p[2]
        /\ CountExceeds(arg_observed, arg_total_draws, p[1], p[2], t)

\* the same for the entry of number k of a table where each draw contributes
\* per_draw numbers out of max_number; the residual is 0.0 when per_draw = max_number
TableExceeds(table, k, per_draw, t) ==
    /\ per_draw < arg_max_number
    /\ CountExceeds(table[k], arg_total_draws, per_draw, arg_max_number, t)

\* the entries of an overall or special table flag |residual| > 2.0 and have
\* no verySignificant field
TableFlags ==
    /\ prob_pc = "regular_table_returned" =>
          \A k \in DOMAIN returned_residuals :
              /\ returned_residuals[k].significant
                    <=> TableExceeds(RegularTable(arg_max_number, arg_total_draws,
                                                  arg_observed),
                                     k, NumbersPerDraw, <<2, 1>>)
              /\ "verySignificant" \notin DOMAIN returned_residuals[k]
    /\ prob_pc = "special_table_returned" =>
          \A k \in DOMAIN returned_residuals :
              /\ returned_residuals[k].significant
                    <=> TableExceeds(SpecialTable(arg_max_number, arg_total_draws,
                                                  arg_observed),
                                     k, 1, <<2, 1>>)
              /\ "verySignificant" \notin DOMAIN returned_residuals[k]

\* C11 as stated: a per-position entry has significant iff |residual| > 1.96
\* and verySignificant iff |residual| > 2.576; an overall or special entry
\* has significant iff |residual| > 2.0 and no verySignificant field.
C11_VerySignificantAbove2576 ==
    /\ prob_pc = "position_entry_returned" =>
          /\ returned_residuals.significant <=> PositionExceeds(<<49, 25>>)
          /\ returned_residuals.verySignificant <=> PositionExceeds(<<322, 125>>)
    /\ TableFlags

\* C11, amended: for a record with at least one valid draw, a per-position
\* entry has significant iff |residual| > 1.96 and verySignificant iff
\* |residual| > 2.58; an overall or special entry has significant iff
\* |residual| > 2.0 and no verySignificant field.
C11_VerySignificantAbove258 ==
    /\ prob_pc = "position_entry_returned" =>
          /\ returned_residuals.significant <=> PositionExceeds(<<49, 25>>)
          /\ returned_residuals.verySignificant <=> PositionExceeds(<<129, 50>>)
    /\ TableFlags

\* a per-position residual between 2.576 and 2.58: significant, not very
C11_Witness ==
    /\ prob_pc = "position_entry_returned"
    /\ PositionExceeds(<<322, 125>>)
    /\ ~PositionExceeds(<<129, 50>>)
    /\ returned_residuals.significant
    /\ ~returned_residuals.verySignificant

----------------------------------------------------------------------------
\* Properties of the returned record

Returned == pc = "done"

\* the four optimized combinations of the record
OptimizedCombinations ==
    {stats.optimizedByGeneralFrequencyRepeat, stats.optimizedByGeneralFrequencyNoRepeat,
     stats.optimizedByPositionFrequencyRepeat, stats.optimizedByPositionFrequencyNoRepeat}

\* every entry of the overall, special and per-position tables of the record
AllEntries ==
    {stats.regularNumbers[k] : k \in DOMAIN stats.regularNumbers}
    \cup {stats.specialBallNumbers[k] : k \in DOMAIN stats.specialBallNumbers}
    \cup UNION {{stats.byPosition[p][k] : k \in DOMAIN stats.byPosition[p]} :
                  p \in DOMAIN stats.byPosition}

\* the residual is the number 0
ResidualIsZero(r) == ~r.divided \/ r.diff = Zero

\* C12: the record returned for a list without a valid draw has totalDraws 0,
\* the four optimized combinations [1,2,3,4,5,1], and in every entry of the
\* three kinds of tables observed 0, expected 0, residual 0, significant
\* false and percent 0.
C12_ZeroDrawRecord ==
    (Returned /\ ValidIndices(Len(draws)) = {}) =>
        /\ stats.totalDraws = 0
        /\ OptimizedCombinations = {<<1, 2, 3, 4, 5, 1>>}
        /\ \A e \in AllEntries :
              /\ e.observed = 0
              /\ e.expected = Zero
              /\ ResidualIsZero(e.residual)
              /\ ~e.significant
              /\ e.percent = Zero

C12_Witness ==
    /\ Returned
    /\ Len(draws) = MaxDraws
    /\ ValidIndices(Len(draws)) = {}
    /\ stats.totalDraws = 0
    /\ Cardinality(DOMAIN stats.regularNumbers) = arg_max_regular
    /\ DOMAIN stats.byPosition = PositionKeys
    /\ stats.optimizedByPositionFrequencyNoRepeat = <<1, 2, 3, 4, 5, 1>>

----------------------------------------------------------------------------
\* Properties of the optimized combinations, for the sizes of the two games

Optimized == pc = "optimized"

\* the single valid draw {numbers: [1,2,3,4,5], specialBall: 1} of Mega Millions
SingleDrawScenario ==
    /\ Optimized
    /\ draws = <<DictDraw(PyList(Ints(<<1, 2, 3, 4, 5>>)), PyInt(1))>>
    /\ arg_max_regular = MegaMillionsMaxRegular
    /\ arg_max_special = MegaMillionsMaxSpecial

SingleDrawCounts ==
    /\ \A k \in 1..arg_max_regular :
          frequency[IntToStr(k)] = IF k <= 5 THEN 1 ELSE 0
    /\ position_frequency["position0"]["1"] = 1
    /\ special_frequency["1"] = 1

\* C13 as stated: in the scenario the counts are those of the draw and all
\* four optimized combinations are [1,2,3,4,5,1].
C13_AllFourAreTheDraw ==
    SingleDrawScenario =>
        /\ SingleDrawCounts
        /\ OptimizedCombinations = {<<1, 2, 3, 4, 5, 1>>}

\* C13, amended: in the scenario the counts are those of the draw, the two
\* general strategies and the position repeat strategy return [1,2,3,4,5,1],
\* and the position no-repeat strategy returns [1,2,3,4,5,2].
C13_PositionNoRepeatAvoidsTheDraw ==
    SingleDrawScenario =>
        /\ SingleDrawCounts
        /\ stats.optimizedByGeneralFrequencyRepeat = <<1, 2, 3, 4, 5, 1>>
        /\ stats.optimizedByGeneralFrequencyNoRepeat = <<1, 2, 3, 4, 5, 1>>
        /\ stats.optimizedByPositionFrequencyRepeat = <<1, 2, 3, 4, 5, 1>>
        /\ stats.optimizedByPositionFrequencyNoRepeat = <<1, 2, 3, 4, 5, 2>>

C13_Witness ==
    /\ SingleDrawScenario
    /\ stats.totalDraws = 1
    /\ existing_combinations = {Ints(<<1, 2, 3, 4, 5, 1>>)}
    /\ stats.optimizedByPositionFrequencyNoRepeat # stats.optimizedByPositionFrequencyRepeat

----------------------------------------------------------------------------
\* The position repeat strategy

\* number n has the highest count of the table, and is the first such number
\* in the order of the table
IsFirstOfHighest(table, n) ==
    /\ IntToStr(n) \in DOMAIN table
    /\ \A k \in 1..Cardinality(DOMAIN table) :
          \/ table[IntToStr(k)] < table[IntToStr(n)]
          \/ table[IntToStr(k)] = table[IntToStr(n)] /\ n <= k

PositionRepeat == stats.optimizedByPositionFrequencyRepeat

\* C14 as stated: for every draw list with at least one valid draw the five
\* regular numbers of optimizedByPositionFrequencyRepeat are in non-decreasing
\* order.
C14_PositionRepeatAscending ==
    (Returned /\ valid_draws >= 1) =>
        \A i \in 1..4 : PositionRepeat[i] <= PositionRepeat[i + 1]

\* C14, amended: for every draw list with at least one valid draw, the i-th
\* number of optimizedByPositionFrequencyRepeat is the number with the highest
\* count at position i (the smallest one among equals) and the last one is the
\* special number with the highest count (the smallest one among equals); the
\* five numbers are in position order, whatever their values.
C14_PositionRepeatInPositionOrder ==
    (Returned /\ valid_draws >= 1) =>
        /\ \A i \in 1..5 :
              IsFirstOfHighest(position_frequency[PosKey(i - 1)], PositionRepeat[i])
        /\ IsFirstOfHighest(special_frequency, PositionRepeat[6])

C14_Witness ==
    /\ Returned
    /\ valid_draws >= 1
    /\ PositionRepeat[1] > PositionRepeat[2]
    /\ position_frequency["position0"][IntToStr(PositionRepeat[1])] = valid_draws

----------------------------------------------------------------------------
\* The general strategies

GeneralRepeat == stats.optimizedByGeneralFrequencyRepeat
GeneralNoRepeat == stats.optimizedByGeneralFrequencyNoRepeat

\* the set of the first n numbers of a table sorted by count
TopOf(table, n) ==
    LET sorted == SortedByFrequency(table)
    IN  {sorted[i] : i \in 1..Min(n, Len(sorted))}

\* the tuple is in the existing-combination set
Drawn(tuple) == Ints(tuple) \in existing_combinations

\* some 5 distinct numbers of top, in ascending order, with some special of
\* specials make a tuple that is absent from the set
SomeAbsent(top, specials) ==
    \E a \in top : \E b \in top : a < b /\
    \E c \in top : b < c /\
    \E d \in top : c < d /\
    \E e \in top : d < e /\
    \E s \in specials : ~Drawn(<<a, b, c, d, e, s>>)

\* C15: when the set contains the combination of the general repeat strategy
\* and some 5 of the top 20 regular numbers with one of the top 10 special
\* numbers are absent from it, the general no-repeat strategy returns a
\* combination that differs from the repeat one and is absent from the set.
C15_GeneralNoRepeatAvoidsTheSet ==
    (/\ Optimized
     /\ stats.totalDraws >= 1
     /\ Drawn(GeneralRepeat)
     /\ SomeAbsent(TopOf(frequency, 20), TopOf(special_frequency, 10)))
        => (GeneralNoRepeat # GeneralRepeat /\ ~Drawn(GeneralNoRepeat))

\* C16: the general no-repeat strategy returns either five pairwise distinct
\* regular numbers in ascending order, all among the 20 most frequent, followed
\* by one of the 10 most frequent special numbers, the combination being
\* absent from the set, or exactly the result of the general repeat strategy.
C16_GeneralNoRepeatFreeOrFallback ==
    (Returned /\ valid_draws >= 1) =>
        \/ /\ \A i \in 1..4 : GeneralNoRepeat[i] < GeneralNoRepeat[i + 1]
           /\ \A i \in 1..5 : GeneralNoRepeat[i] \in TopOf(frequency, 20)
           /\ GeneralNoRepeat[6] \in TopOf(special_frequency, 10)
           /\ ~Drawn(GeneralNoRepeat)
        \/ GeneralNoRepeat = GeneralRepeat

\* the search returned a free combination although the repeat one was drawn
C16_Witness ==
    /\ Returned
    /\ valid_draws >= 1
    /\ Drawn(GeneralRepeat)
    /\ GeneralNoRepeat # GeneralRepeat
    /\ ~Drawn(GeneralNoRepeat)

----------------------------------------------------------------------------
\* The position no-repeat strategy

PositionNoRepeat == stats.optimizedByPositionFrequencyNoRepeat

\* the combination of a result whose five numbers are in position order:
\* the numbers in ascending order, then the special number
SortedCombination(result) ==
    SortedInts(<<result[1], result[2], result[3], result[4], result[5]>>) \o <<result[6]>>

\* C17: the position no-repeat strategy returns either one number of the top
\* 5 of each position, the five pairwise distinct, followed by one of the top
\* 5 special numbers, such that the numbers in ascending order with the
\* special number are absent from the set, or exactly the result of the
\* position repeat strategy.
C17_PositionNoRepeatFreeOrFallback ==
    (Returned /\ valid_draws >= 1) =>
        \/ /\ \A i \in 1..5 :
                 PositionNoRepeat[i] \in TopOf(position_frequency[PosKey(i - 1)], 5)
           /\ \A i, j \in 1..5 : i # j => PositionNoRepeat[i] # PositionNoRepeat[j]
           /\ PositionNoRepeat[6] \in TopOf(special_frequency, 5)
           /\ ~Drawn(SortedCombination(PositionNoRepeat))
        \/ PositionNoRepeat = PositionRepeat

\* the search returned a free combination although the repeat one was drawn
C17_Witness ==
    /\ Returned
    /\ valid_draws >= 1
    /\ Drawn(SortedCombination(PositionRepeat))
    /\ PositionNoRepeat # PositionRepeat
    /\ ~Drawn(SortedCombination(PositionNoRepeat))

----------------------------------------------------------------------------
\* verify_frequency_stats, on records of the shape calculate_stats_for_type
\* returns whose counts need not be consistent

\* sum(res['observed'] for res in table.values())
SumObserved(table) == SumOver([k \in DOMAIN table |-> table[k].observed], DOMAIN table)

\* list(position_residuals.keys())[0]: the tables are inserted for position
\* 0..4 in this order (lines 526-529)
FirstPosition(position_residuals) ==
    PosKey(CHOOSE p \in 0..4 : /\ PosKey(p) \in DOMAIN position_residuals
                               /\ \A q \in 0..(p - 1) : PosKey(q) \notin DOMAIN position_residuals)

\* lines 39-75
verify_frequency_stats(stats_) ==
    IF stats_.totalDraws = 0 THEN TRUE
    ELSE IF DOMAIN stats_.byPosition = {} THEN TRUE
    ELSE LET position_residuals == stats_.byPosition
             total_draws == SumObserved(position_residuals[FirstPosition(position_residuals)])
         IN  IF total_draws = 0 THEN TRUE
             ELSE IF \E pos_key \in DOMAIN position_residuals :
                        SumObserved(position_residuals[pos_key]) # total_draws
             THEN FALSE
             ELSE IF SumObserved(stats_.specialBallNumbers) # total_draws THEN FALSE
             ELSE TRUE

\* residual tables of two numbers, by their observed counts
VerifyTables ==
    { [k \in {"1", "2"} |-> [observed |-> IF k = "1" THEN a ELSE b]] :
        a \in 0..MaxVerifyObserved, b \in 0..1 }

\* the records: any total, any table for each position and the special ball;
\* or no position table at all
VerifyRecords ==
    [totalDraws : 0..(MaxVerifyObserved + 1),
     byPosition : [{PosKey(p) : p \in 0..4} -> VerifyTables] \cup {<<>>},
     specialBallNumbers : VerifyTables]

InitVerify ==
    /\ draws = <<>> /\ arg_max_regular = 0 /\ arg_max_special = 0 /\ idx = 1 /\ valid_draws = 0
    /\ frequency = <<>> /\ special_frequency = <<>> /\ position_frequency = <<>>
    /\ existing_combinations = {}
    /\ pc = "verify"
    /\ stats \in VerifyRecords
    /\ ProbIdle
    /\ SumIdle

VerifyFrequencyStats ==
    /\ pc = "verify"
    /\ returned_verified' = verify_frequency_stats(stats)
    /\ pc' = "verified"
    /\ UNCHANGED <<draws, arg_max_regular, arg_max_special, idx, valid_draws, frequency,
                   special_frequency, position_frequency, existing_combinations, stats>>
    /\ UNCHANGED <<probVars, entryVars, sumVars, searchVars, scraperVars>>

NextVerify == VerifyFrequencyStats

SpecVerify == InitVerify /\ [][NextVerify]_vars

\* the sums of observed over the tables of the record
RecordSums ==
    {SumObserved(stats.byPosition[pos_key]) : pos_key \in DOMAIN stats.byPosition}
        \cup {SumObserved(stats.specialBallNumbers)}

\* C20: verify_frequency_stats returns pass if and only if the record has
\* totalDraws = 0, or the sums of observed over its five per-position tables
\* are equal to one another and to the sum over the special-ball table.
C20_PassIffSumsAgree ==
    (pc = "verified" /\ DOMAIN stats.byPosition # {}) =>
        (returned_verified <=> (stats.totalDraws = 0 \/ Cardinality(RecordSums) = 1))

----------------------------------------------------------------------------
\* The attempt cap of the no-repeat strategies

AttemptCap == 1000

\* the strategy has returned / returned from inside its loops
SearchReturned == search_pc \in {"general_returned", "position_returned"}
SearchHit == combo # NoCombo /\ combo \notin existing_combinations

\* the result of the repeat strategy that corresponds to the one that returned
RepeatResult ==
    IF search_pc = "general_returned"
    THEN optimized_by_general_frequency_repeat(frequency, special_frequency)
    ELSE optimized_by_position_frequency_repeat(position_frequency, special_frequency)

\* a step that looks a new tuple up in existing_combinations
LooksUp == combo' # combo /\ combo' # NoCombo

\* C18: both no-repeat strategies, once called, return on every input; the
\* attempt counter never exceeds 1000; a tuple is looked up in the set only for an attempt
\* counted below the cap (in the general strategy for one of the first 1000
\* iterations, in the position strategy by a step that raises the counter from
\* below 1000); and a strategy that returns without a hit returns the result
\* of the corresponding repeat strategy.
C18_SearchesAreCappedAndFallBack ==
    /\ [](attempts <= AttemptCap)
    /\ [][LooksUp =>
            IF search_pc = "general_special"
            THEN loop_index < AttemptCap /\ attempts = loop_index + 1
            ELSE attempts < AttemptCap /\ attempts' = attempts + 1]_vars
    /\ []((SearchReturned /\ ~SearchHit) => search_result = RepeatResult)
    /\ (search_pc = "general_loop") ~> (search_pc = "general_returned")
    /\ (search_pc = "position_loop") ~> (search_pc = "position_returned")

\* the position strategy has used up its attempts and returned the fallback
C18_Witness ==
    /\ search_pc = "position_returned"
    /\ attempts = AttemptCap
    /\ combo \in existing_combinations
    /\ loop_index = PositionIterations
    /\ search_result = RepeatResult

----------------------------------------------------------------------------
\* The general repeat strategy

\* number n comes before number k in the order of the strategy: it has the
\* higher count, or the same count and is the smaller number
Before(table, n, k) ==
    \/ table[IntToStr(k)] < table[IntToStr(n)]
    \/ table[IntToStr(k)] = table[IntToStr(n)] /\ n < k

GeneralRepeatNumbers == {GeneralRepeat[i] : i \in 1..5}

\* C19: the general repeat strategy returns, in ascending order, the five
\* regular numbers with the highest overall counts (of equal counts the
\* smaller number first), followed by the special number with the highest
\* count (the smallest of equals); the tables alone determine the result,
\* whatever the existing combinations.
C19_GeneralRepeatIsTopFive ==
    (Returned /\ valid_draws >= 1) =>
        /\ \A i \in 1..4 : GeneralRepeat[i] < GeneralRepeat[i + 1]
        /\ GeneralRepeatNumbers \subseteq 1..arg_max_regular
        /\ \A n \in GeneralRepeatNumbers :
              \A k \in (1..arg_max_regular) \ GeneralRepeatNumbers :
                 Before(frequency, n, k)
        /\ IsFirstOfHighest(special_frequency, GeneralRepeat[6])

\* a tie for the fifth place, and the combination returned has been drawn
C19_Witness ==
    /\ Returned
    /\ valid_draws >= 1
    /\ \E n \in GeneralRepeatNumbers : \E k \in (1..arg_max_regular) \ GeneralRepeatNumbers :
          frequency[IntToStr(n)] = frequency[IntToStr(k)] /\ frequency[IntToStr(k)] > 0
    /\ Drawn(GeneralRepeat)

----------------------------------------------------------------------------
\* The tables of the returned record are dense

\* number k is one of the numbers / the special ball of a valid draw
RegularDrawn(k) ==
    \E i \in ValidIndices(Len(draws)) : \E j \in 1..NumbersPerDraw :
        draws[i].numbers.elems[j].v = k
SpecialDrawn(k) == \E i \in ValidIndices(Len(draws)) : draws[i].specialBall.v = k

\* C21: in every returned record, the zero-draw record included, the overall
\* table and each of the five per-position tables have an entry for every
\* number of 1..maxRegular, the special table has one for every number of
\* 1..maxSpecial, and the entries of numbers never drawn have observed 0.
C21_TablesAreDense ==
    Returned =>
        /\ DOMAIN stats.regularNumbers = {IntToStr(k) : k \in 1..arg_max_regular}
        /\ DOMAIN stats.specialBallNumbers = {IntToStr(k) : k \in 1..arg_max_special}
        /\ DOMAIN stats.byPosition = {PosKey(p) : p \in 0..4}
        /\ \A p \in 0..4 :
              DOMAIN stats.byPosition[PosKey(p)] = {IntToStr(k) : k \in 1..arg_max_regular}
        /\ \A k \in 1..arg_max_regular : ~RegularDrawn(k) =>
              /\ stats.regularNumbers[IntToStr(k)].observed = 0
              /\ \A p \in 0..4 : stats.byPosition[PosKey(p)][IntToStr(k)].observed = 0
        /\ \A k \in 1..arg_max_special : ~SpecialDrawn(k) =>
              stats.specialBallNumbers[IntToStr(k)].observed = 0

\* a record with valid draws in which a regular and a special number were
\* never drawn
C21_Witness ==
    /\ Returned
    /\ stats.totalDraws >= 1
    /\ \E k \in 1..arg_max_regular :
          ~RegularDrawn(k) /\ stats.regularNumbers[IntToStr(k)].observed = 0
    /\ \E k \in 1..arg_max_special :
          ~SpecialDrawn(k) /\ stats.specialBallNumbers[IntToStr(k)].observed = 0

----------------------------------------------------------------------------
\* The shape of the optimized combinations

\* six integers: five of 1..max_regular, then one of 1..max_special
IsCombinationOf(c, max_regular, max_special) ==
    /\ DOMAIN c = 1..6
    /\ \A i \in 1..5 : c[i] \in 1..max_regular
    /\ c[6] \in 1..max_special

\* C22: for the two game configurations (70/25 and 69/26) and every draw
\* list, each of the four optimized combinations consists of five numbers of
\* 1..maxRegular followed by one number of 1..maxSpecial.
C22_CombinationsInRange ==
    Optimized =>
        \A c \in OptimizedCombinations :
            IsCombinationOf(c, arg_max_regular, arg_max_special)

\* the highest regular number of Powerball and a high special number returned
C22_Witness ==
    /\ Optimized
    /\ stats.totalDraws >= 1
    /\ arg_max_regular = PowerballMaxRegular
    /\ GeneralRepeat[5] = PowerballMaxRegular
    /\ PositionRepeat[6] = MegaMillionsMaxSpecial
    /\ PositionNoRepeat # PositionRepeat

----------------------------------------------------------------------------
\* The existing-combination set

\* a record with a list of 5 numbers and an integer special ball, in range
\* or not
IsStructuredDraw(draw) ==
    /\ draw.isDict
    /\ draw.numbers.kind = "list"
    /\ Len(draw.numbers.elems) = NumbersPerDraw
    /\ draw.specialBall.t \in {"int", "bool"}

\* the tuple is the 5 numbers of the draw in ascending order, then its
\* special ball (True counting as 1)
IsTupleOf(tuple, draw) ==
    /\ DOMAIN tuple = 1..6
    /\ tuple[6] = HashKey(draw.specialBall)
    /\ \A i \in 1..4 : ~(tuple[i + 1].v < tuple[i].v)
    /\ \A x \in {tuple[i] : i \in 1..5} \cup {HashKey(draw.numbers.elems[i]) : i \in 1..5} :
          Cardinality({i \in 1..5 : tuple[i] = x})
              = Cardinality({i \in 1..5 : HashKey(draw.numbers.elems[i]) = x})

\* the found (not fallback) result of a no-repeat strategy is not in the set,
\* neither as returned nor with its numbers in ascending order
FoundIsNew(no_repeat, repeat) ==
    no_repeat # repeat => ~Drawn(no_repeat) /\ ~Drawn(SortedCombination(no_repeat))

\* C23: the existing-combination set holds, for every draw of the input that
\* is a record with 5 numbers and an integer special ball, valid or out of
\* range, the tuple of its numbers in ascending order and its special ball,
\* and nothing else; and a no-repeat strategy never returns a found tuple
\* that is in the set.
C23_ExistingHoldsEveryStructuredDraw ==
    /\ Aggregating =>
          /\ \A i \in 1..Len(draws) : IsStructuredDraw(draws[i]) =>
                \E tuple \in existing_combinations : IsTupleOf(tuple, draws[i])
          /\ \A tuple \in existing_combinations :
                \E i \in 1..Len(draws) :
                    IsStructuredDraw(draws[i]) /\ IsTupleOf(tuple, draws[i])
    /\ (Returned /\ valid_draws >= 1) =>
          /\ FoundIsNew(GeneralNoRepeat, GeneralRepeat)
          /\ FoundIsNew(PositionNoRepeat, PositionRepeat)

\* the set holds the tuple of a draw that is not valid, beside one of a valid
\* draw that a no-repeat strategy has avoided
C23_Witness ==
    /\ Returned
    /\ valid_draws >= 1
    /\ \E i \in 1..Len(draws) :
          /\ IsStructuredDraw(draws[i])
          /\ ~IsValidDraw(draws[i])
          /\ Combo(draws[i]) \in existing_combinations
    /\ Drawn(PositionRepeat)
    /\ PositionNoRepeat # PositionRepeat

----------------------------------------------------------------------------
\* The returned record under the verification

\* C24: every record that calculate_stats_for_type returns passes
\* verify_frequency_stats: the sums of observed over each of its five
\* per-position tables and over its special-ball table equal totalDraws.
C24_ReturnedRecordVerifies ==
    Returned =>
        /\ verify_frequency_stats(stats)
        /\ DOMAIN stats.byPosition = {PosKey(p) : p \in 0..4}
        /\ \A pos_key \in DOMAIN stats.byPosition :
              SumObserved(stats.byPosition[pos_key]) = stats.totalDraws
        /\ SumObserved(stats.specialBallNumbers) = stats.totalDraws

\* a record of a list that holds valid draws and draws that are passed over,
\* on which the verification compares all six sums
C24_Witness ==
    /\ Returned
    /\ stats.totalDraws >= 1
    /\ stats.totalDraws < Len(draws)
    /\ SumObserved(stats.byPosition[PosKey(0)]) # 0
    /\ verify_frequency_stats(stats)

\* C25: in a returned record with totalDraws > 0, a per-position entry whose
\* expected value is 0 has observed = 0: no valid draw is counted at a
\* (number, position) pair whose position probability is 0.
C25_NothingObservedWhereImpossible ==
    (Returned /\ stats.totalDraws > 0) =>
        \A p \in 0..4 : \A k \in 1..arg_max_regular :
            stats.byPosition[PosKey(p)][IntToStr(k)].expected = Zero
                => stats.byPosition[PosKey(p)][IntToStr(k)].observed = 0

----------------------------------------------------------------------------
\* save_to_json (lottery_scraper.py)

\* a draw as scrape_lottery_numbers builds it (lines 204-209); date is the day
\* its ISO string '%Y-%m-%d' stands for, the strings comparing as the days do
DatedDraw(date, numbers, special_ball, game) ==
    [isDict |-> TRUE, date |-> date, numbers |-> PyList(Ints(numbers)),
     specialBall |-> PyInt(special_ball), type |-> game]

\* {draw.get('date') for draw in existing_draws}
DatesOf(ds) == {ds[i].date : i \in 1..Len(ds)}

RECURSIVE AppendNew_DatesNotUpdated(_, _, _, _, _)
\* the loop without existing_dates.add
AppendNew_DatesNotUpdated(existing_draws, existing_dates, ds, i, added) ==
    IF i > Len(ds) THEN [draws |-> existing_draws, added |-> added]
    ELSE IF ds[i].date \notin existing_dates
         THEN AppendNew_DatesNotUpdated(Append(existing_draws, ds[i]), existing_dates,
                                        ds, i + 1, TRUE)
         ELSE AppendNew_DatesNotUpdated(existing_draws, existing_dates, ds, i + 1, added)

RECURSIVE AppendNew(_, _, _, _, _)
\* lines 280-284, from the i-th draw on
AppendNew(existing_draws, existing_dates, ds, i, added) ==
    IF i > Len(ds) THEN [draws |-> existing_draws, added |-> added]
    ELSE IF ds[i].date \notin existing_dates
         THEN AppendNew(Append(existing_draws, ds[i]),
                        existing_dates \cup {ds[i].date}, ds, i + 1, TRUE)
         ELSE AppendNew(existing_draws, existing_dates, ds, i + 1, added)

\* insert x before the first draw of an older date: with reverse=True the
\* sort keeps draws of the same date in the order they had
InsertNewestFirst(sorted, x) ==
    LET older == {i \in 1..Len(sorted) : sorted[i].date < x.date}
        at == IF older = {} THEN Len(sorted) + 1
              ELSE CHOOSE i \in older : \A j \in older : i <= j
    IN  SubSeq(sorted, 1, at - 1) \o <<x>> \o SubSeq(sorted, at, Len(sorted))

RECURSIVE SortNewestFrom(_, _, _)
SortNewestFrom(ds, i, sorted) ==
    IF i > Len(ds) THEN sorted
    ELSE SortNewestFrom(ds, i + 1, InsertNewestFirst(sorted, ds[i]))

\* ds.sort(key=lambda x: x.get('date', ''), reverse=True)
SortNewestFirst(ds) == SortNewestFrom(ds, 1, <<>>)

\* lines 262-297: the new content of the file and the return value.  A file
\* that does not hold a list of draws makes the loops raise, which is caught:
\* the file is left as it is and the call returns False.
save_to_json(ds, content) ==
    IF content.kind \notin {"absent", "list"}
    THEN [content |-> content, new_draws_added |-> FALSE]
    ELSE LET existing_draws == IF content.kind = "absent" THEN <<>> ELSE content.draws
             appended == AppendNew(existing_draws, DatesOf(existing_draws), ds, 1, FALSE)
         IN  [content |-> JsonList(SortNewestFirst(appended.draws)),
              new_draws_added |-> appended.added]

\* the draws of the save_to_json calls: two draws of each date
SavePool ==
    {DatedDraw(date, <<1, 2, 3, 4, 5>>, special_ball, "powerball") :
        date \in 1..MaxSaveDate, special_ball \in {1, 2}}

SaveLists == UNION {[1..n -> SavePool] : n \in 0..MaxSaveDraws}

\* no file, or a list that save_to_json has written
SaveStarts ==
    {NoFile} \cup {save_to_json(ds, NoFile).content : ds \in SaveLists}

InitSave ==
    /\ AggIdle /\ ProbIdle /\ sum_k = 0 /\ sum_acc = Zero /\ StrategiesIdle
    /\ \E content \in SaveStarts :
          files = [name \in FileNames |-> IF name = "pb.json" THEN content ELSE NoFile]
    /\ bucket = [name \in FileNames |-> NoFile]
    /\ run_pc = "idle" /\ scrape_pc = "idle"
    /\ latest_draws = <<>> /\ all_draws = <<>>
    /\ any_new_draws = FALSE
    /\ save_args = NoSave /\ new_draws_added = FALSE
    /\ calls = <<>>

\* a call save_to_json(ds, 'pb.json')
SaveToJson ==
    /\ run_pc = "idle" /\ scrape_pc = "idle"
    /\ \E ds \in SaveLists :
          LET saved == save_to_json(ds, files["pb.json"])
          IN  /\ files' = [files EXCEPT !["pb.json"] = saved.content]
              /\ save_args' = [draws |-> ds, filename |-> "pb.json"]
              /\ new_draws_added' = saved.new_draws_added
    /\ UNCHANGED <<bucket, run_pc, scrape_pc, latest_draws, all_draws, any_new_draws, calls>>
    /\ UNCHANGED <<aggVars, probVars, entryVars, sumVars, searchVars, returned_verified>>

NextSave == SaveToJson

SpecSave == InitSave /\ [][NextSave]_vars

\* the draws a file holds
Stored(content) == IF content.kind = "list" THEN content.draws ELSE <<>>
Elements(ds) == {ds[i] : i \in 1..Len(ds)}

\* the i-th draw of the call finds its date neither in the file nor earlier
\* in the call
FindsDateFree(ds, i, stored) ==
    /\ ds[i].date \notin {stored[k].date : k \in 1..Len(stored)}
    /\ \A j \in 1..(i - 1) : ds[j].date # ds[i].date

\* no two draws of the list share a date, and the list is newest first
NewestFirstNoDuplicate(ds) ==
    \A i, j \in 1..Len(ds) : i < j => ds[i].date > ds[j].date

\* C26: a call of save_to_json on a file without duplicate dates keeps every
\* stored draw, appends exactly the draws of the call whose date is neither
\* stored nor that of an earlier draw of the call, leaves the list without
\* duplicate dates and newest first, and returns true if and only if it has
\* appended a draw.
C26_SaveKeepsAndAppendsNewDates ==
    [][save_args'.filename = "pb.json" =>
        LET before == Stored(files["pb.json"])
            after == Stored(files'["pb.json"])
            ds == save_args'.draws
            free == {i \in 1..Len(ds) : FindsDateFree(ds, i, before)}
        IN  /\ files'["pb.json"].kind = "list"
            /\ Elements(before) \subseteq Elements(after)
            /\ Elements(after) = Elements(before) \cup {ds[i] : i \in free}
            /\ Len(after) = Len(before) + Cardinality(free)
            /\ NewestFirstNoDuplicate(after)
            /\ new_draws_added' <=> Len(after) > Len(before)]_vars

\* a call of two or more draws that appended a draw beside a stored one it
\* kept, and passed over a draw whose date was taken
C26_Witness ==
    /\ save_args.filename = "pb.json"
    /\ new_draws_added
    /\ Len(save_args.draws) >= 2
    /\ Len(Stored(files["pb.json"])) >= 2
    /\ \E d \in Elements(save_args.draws) : d \notin Elements(Stored(files["pb.json"]))
    /\ \E d \in Elements(Stored(files["pb.json"])) : d \notin Elements(save_args.draws)

----------------------------------------------------------------------------
\* scrape_lottery_data (lottery_scraper.py) and run_scraper (main.py)

Games == {"powerball", "mega-millions"}
GameFile(game) == IF game = "powerball" THEN "pb.json" ELSE "mm.json"

\* an entry of the record of calls: the function called, the file it was
\* called for, the number of draws it added to that file, its success
Call(op, file, appended, ok) ==
    [op |-> op, file |-> file, appended |-> appended, ok |-> ok]

\* the files in the order of the loops of lines 32-34 and 78-80
DownloadOrder == <<"mm.json", "pb.json">>
UploadOrder == <<"mm.json", "pb.json", "mm-stats.json", "pb-stats.json">>

\* lines 19-62.  handled is the number of files the loop has dealt with when
\* the storage (client, exists or download) fails, 2 when it does not fail.
\* A file that is in the bucket replaces the local one; one that is in
\* neither place is created with an empty list, in the except branch too.
download_from_gcs(fs, bk, handled) ==
    LET reached(name) == \E i \in 1..handled : DownloadOrder[i] = name
        created(content) == IF content.kind = "absent" THEN JsonList(<<>>) ELSE content
    IN  [files |-> [name \in FileNames |->
                      IF name \notin DataFiles THEN fs[name]
                      ELSE IF reached(name) /\ bk[name].kind # "absent" THEN bk[name]
                      ELSE created(fs[name])],
         ok |-> handled = Len(DownloadOrder)]

\* lines 64-96: the bucket after the call.  handled is the number of files the
\* loop has dealt with when the storage fails, 4 when it does not fail; a file
\* that does not exist locally is skipped.
upload_to_gcs(fs, bk, handled) ==
    [bucket |-> [name \in FileNames |->
                   IF (\E i \in 1..handled : UploadOrder[i] = name) /\ fs[name].kind # "absent"
                   THEN fs[name] ELSE bk[name]],
     ok |-> handled = Len(UploadOrder)]

\* lines 98-136: the date of the newest draw of each file, None without one
get_latest_draws(fs) ==
    [game \in Games |->
        LET content == fs[GameFile(game)]
        IN  IF content.kind = "list" /\ Len(content.draws) > 0
            THEN PyStrVal(SortNewestFirst(content.draws)[1].date)
            ELSE PyNone]

\* lines 220-243, for a start date that is set
filter_lottery_data(data, start_date) ==
    SortNewestFirst(SelectSeq(data, LAMBDA draw : draw.date > start_date.v))

RECURSIVE CountFrom(_, _, _, _, _)
\* the loop of lines 666-698 from the i-th draw on
CountFrom(c, ds, i, max_regular, max_special) ==
    IF i > Len(ds) THEN [raised |-> FALSE, c |-> c]
    ELSE LET r == ProcessOne(c, ds[i], max_regular, max_special)
         IN  IF r.raised THEN r
             ELSE CountFrom(r.c, ds, i + 1, max_regular, max_special)

\* calculate_stats_for_type as a whole: whether it raises, and of the record
\* it returns the type and totalDraws
calculate_stats_for_type(ds, lottery_type, max_regular, max_special) ==
    LET existing == get_existing_combinations(ds)
        counted == CountFrom(InitCounters(max_regular, max_special), ds, 1,
                             max_regular, max_special)
    IN  IF existing.raised \/ counted.raised
        THEN [raised |-> TRUE, record |-> NoStats]
        ELSE [raised |-> FALSE,
              record |-> [type |-> lottery_type, totalDraws |-> counted.c.valid_draws]]

\* calculate_stats.py lines 93-142: the files after the call and the two
\* return values, None when a file cannot be read as a list or a calculation
\* raises
calculate_lottery_stats(fs) ==
    LET mm == IF fs["mm.json"].kind = "list"
              THEN calculate_stats_for_type(fs["mm.json"].draws, "mega-millions",
                                            MegaMillionsMaxRegular, MegaMillionsMaxSpecial)
              ELSE [raised |-> TRUE, record |-> NoStats]
        pb == IF fs["pb.json"].kind = "list"
              THEN calculate_stats_for_type(fs["pb.json"].draws, "powerball",
                                            PowerballMaxRegular, PowerballMaxSpecial)
              ELSE [raised |-> TRUE, record |-> NoStats]
    IN  IF mm.raised \/ pb.raised
        THEN [files |-> fs, mm_stats |-> JsonNull, pb_stats |-> JsonNull, ok |-> FALSE]
        ELSE [files |-> [fs EXCEPT !["mm-stats.json"] = JsonStats(mm.record),
                                   !["pb-stats.json"] = JsonStats(pb.record)],
              mm_stats |-> JsonStats(mm.record), pb_stats |-> JsonStats(pb.record),
              ok |-> TRUE]

\* what the site lists for a game: draws of the game with numbers in range,
\* at most one of each date, newest first
ScrapedLists(game) ==
    { [i \in 1..Cardinality(dates) |->
          DatedDraw(CHOOSE date \in dates : Cardinality({later \in dates : later > date}) = i - 1,
                    <<1, 2, 3, 4, 5>>, 1, game)] :
        dates \in SUBSET (1..MaxSaveDate) }

\* a draw that an earlier run has stored, and a stored record whose numbers
\* cannot be ordered (calculate_stats_for_type raises on it)
StoredDraw(game) == DatedDraw(1, <<1, 2, 3, 4, 5>>, 2, game)
UnorderableDraw(game) ==
    [StoredDraw(game) EXCEPT
        !.numbers = PyList(<<PyInt(1), PyStrVal(1), PyInt(2), PyInt(3), PyInt(4)>>)]

\* the statistics files an earlier run has written
OldStatistics(name) ==
    JsonStats([type |-> IF name = "pb-stats.json" THEN "powerball" ELSE "mega-millions",
               totalDraws |-> 0])

\* the local directory before a run: each draw file missing, empty or with a
\* stored draw, mm.json possibly with a record that cannot be ordered; the
\* statistics files missing or written earlier
LocalStarts ==
    { [name \in FileNames |->
          IF name = "pb.json" THEN pb
          ELSE IF name = "mm.json" THEN mm
          ELSE IF old THEN OldStatistics(name) ELSE NoFile] :
        pb \in {NoFile, JsonList(<<>>), JsonList(<<StoredDraw("powerball")>>)},
        mm \in {NoFile, JsonList(<<StoredDraw("mega-millions")>>),
                JsonList(<<UnorderableDraw("mega-millions")>>)},
        old \in BOOLEAN }

\* the bucket before a run: empty, or with what an earlier run has uploaded
BucketStarts ==
    { [name \in FileNames |-> NoFile],
      [name \in FileNames |->
          IF name \in DataFiles
          THEN JsonList(<<StoredDraw(IF name = "pb.json" THEN "powerball" ELSE "mega-millions")>>)
          ELSE OldStatistics(name)] }

\* the date scraping starts from when a file holds no draw (lines 319-333):
\* the day before the first draw of the game
StartDate(game) == PyStrVal(0)

\* the flag left as it was
NewDrawsFlag_Unset(flag, added) == flag

\* lines 368-371, 393-396: any_new_draws after a save
NewDrawsFlag(flag, added) == flag \/ added

InitScrape ==
    /\ AggIdle /\ ProbIdle /\ sum_k = 0 /\ sum_acc = Zero /\ StrategiesIdle
    /\ files \in LocalStarts
    /\ bucket \in BucketStarts
    /\ run_pc = "idle" /\ scrape_pc = "download"
    /\ latest_draws = <<>> /\ all_draws = <<>>
    /\ any_new_draws = FALSE
    /\ save_args = NoSave /\ new_draws_added = FALSE
    /\ calls = <<>>

\* lines 309-313
ScrapeDownload ==
    /\ scrape_pc = "download"
    /\ \E handled \in 0..Len(DownloadOrder) :
          LET r == download_from_gcs(files, bucket, handled)
          IN  /\ files' = r.files
              /\ calls' = Append(calls, Call("download_from_gcs", "", 0, r.ok))
    /\ scrape_pc' = "latest"
    /\ UNCHANGED <<bucket, run_pc, latest_draws, all_draws, any_new_draws, save_args,
                   new_draws_added>>
    /\ UNCHANGED <<aggVars, probVars, entryVars, sumVars, searchVars, returned_verified>>

\* lines 315-349
ScrapeLatest ==
    /\ scrape_pc = "latest"
    /\ latest_draws' = [game \in Games |->
                          IF get_latest_draws(files)[game] = PyNone THEN StartDate(game)
                          ELSE get_latest_draws(files)[game]]
    /\ all_draws' = [game \in Games |-> <<>>]
    /\ any_new_draws' = FALSE
    /\ scrape_pc' = "powerball"
    /\ UNCHANGED <<files, bucket, run_pc, save_args, new_draws_added, calls>>
    /\ UNCHANGED <<aggVars, probVars, entryVars, sumVars, searchVars, returned_verified>>

\* lines 351-374 for Powerball, 376-399 for Mega Millions: scrape, filter, save
ProcessGame(game, next_pc) ==
    /\ scrape_pc = game
    /\ \E scraped \in ScrapedLists(game) :
          LET filtered == IF scraped = <<>> THEN <<>>
                          ELSE filter_lottery_data(scraped, latest_draws[game])
              name == GameFile(game)
              saved == save_to_json(filtered, files[name])
          IN  /\ all_draws' = [all_draws EXCEPT ![game] = scraped]
              /\ IF filtered # <<>>
                 THEN /\ files' = [files EXCEPT ![name] = saved.content]
                      /\ save_args' = [draws |-> filtered, filename |-> name]
                      /\ new_draws_added' = saved.new_draws_added
                      /\ any_new_draws' = NewDrawsFlag(any_new_draws, saved.new_draws_added)
                      /\ calls' = Append(calls,
                            Call("save_to_json", name,
                                 Len(Stored(saved.content)) - Len(Stored(files[name])),
                                 saved.new_draws_added))
                 ELSE UNCHANGED <<files, save_args, new_draws_added, any_new_draws, calls>>
    /\ scrape_pc' = next_pc
    /\ UNCHANGED <<bucket, run_pc, latest_draws>>
    /\ UNCHANGED <<aggVars, probVars, entryVars, sumVars, searchVars, returned_verified>>

ProcessPowerball == ProcessGame("powerball", "mega-millions")
ProcessMegaMillions == ProcessGame("mega-millions", "statistics")

\* lines 401-403 with update_statistics (245-260), which returns True whether
\* or not calculate_lottery_stats has written the statistics
UpdateStatistics ==
    /\ scrape_pc = "statistics"
    /\ IF any_new_draws
       THEN /\ files' = calculate_lottery_stats(files).files
            /\ calls' = Append(calls, Call("update_statistics", "", 0, TRUE))
       ELSE UNCHANGED <<files, calls>>
    /\ scrape_pc' = "upload"
    /\ UNCHANGED <<bucket, run_pc, latest_draws, all_draws, any_new_draws, save_args,
                   new_draws_added>>
    /\ UNCHANGED <<aggVars, probVars, entryVars, sumVars, searchVars, returned_verified>>

\* lines 405-415
ScrapeUpload ==
    /\ scrape_pc = "upload"
    /\ \E handled \in 0..Len(UploadOrder) :
          LET r == upload_to_gcs(files, bucket, handled)
          IN  /\ bucket' = r.bucket
              /\ calls' = Append(calls, Call("upload_to_gcs", "", 0, r.ok))
    /\ scrape_pc' = "returned"
    /\ UNCHANGED <<files, run_pc, latest_draws, all_draws, any_new_draws, save_args,
                   new_draws_added>>
    /\ UNCHANGED <<aggVars, probVars, entryVars, sumVars, searchVars, returned_verified>>

NextScrape ==
    \/ ScrapeDownload
    \/ ScrapeLatest
    \/ ProcessPowerball
    \/ ProcessMegaMillions
    \/ UpdateStatistics
    \/ ScrapeUpload

SpecScrape == InitScrape /\ [][NextScrape]_vars

\* the directory and the bucket before a run of run_scraper: statistics of an
\* earlier run in both places, pb.json missing or with a stored draw, mm.json
\* with a stored draw or with a record that cannot be ordered
InitRun ==
    /\ AggIdle /\ ProbIdle /\ sum_k = 0 /\ sum_acc = Zero /\ StrategiesIdle
    /\ files \in {fs \in LocalStarts : /\ fs["pb-stats.json"].kind = "stats"
                                       /\ fs["pb.json"] # JsonList(<<>>)
                                       /\ fs["mm.json"].kind = "list"}
    /\ bucket \in BucketStarts
    /\ run_pc = "download" /\ scrape_pc = "idle"
    /\ latest_draws = <<>> /\ all_draws = <<>>
    /\ any_new_draws = FALSE
    /\ save_args = NoSave /\ new_draws_added = FALSE
    /\ calls = <<>>

\* main.py lines 23-45: the download, then get_latest_draws for the printout
RunDownload ==
    /\ run_pc = "download"
    /\ \E handled \in 0..Len(DownloadOrder) :
          LET r == download_from_gcs(files, bucket, handled)
          IN  /\ files' = r.files
              /\ calls' = Append(calls, Call("download_from_gcs", "", 0, r.ok))
    /\ run_pc' = "scrape"
    /\ UNCHANGED <<bucket, scrape_pc, latest_draws, all_draws, any_new_draws, save_args,
                   new_draws_added>>
    /\ UNCHANGED <<aggVars, probVars, entryVars, sumVars, searchVars, returned_verified>>

\* main.py line 49: the call of scrape_lottery_data
RunScrape ==
    /\ run_pc = "scrape"
    /\ scrape_pc = "idle"
    /\ scrape_pc' = "download"
    /\ run_pc' = "scraping"
    /\ UNCHANGED <<files, bucket, latest_draws, all_draws, any_new_draws, save_args,
                   new_draws_added, calls>>
    /\ UNCHANGED <<aggVars, probVars, entryVars, sumVars, searchVars, returned_verified>>

\* main.py lines 53-67, once scrape_lottery_data has returned: the statistics
\* are calculated (and written by calculate_lottery_stats when it succeeds),
\* then the two return values are written to the statistics files
RunCalculate ==
    /\ run_pc = "scraping"
    /\ scrape_pc = "returned"
    /\ LET r == calculate_lottery_stats(files)
       IN  /\ files' = [r.files EXCEPT !["mm-stats.json"] = r.mm_stats,
                                       !["pb-stats.json"] = r.pb_stats]
           /\ calls' = Append(calls, Call("calculate_lottery_stats", "", 0, r.ok))
    /\ run_pc' = "upload"
    /\ UNCHANGED <<bucket, scrape_pc, latest_draws, all_draws, any_new_draws, save_args,
                   new_draws_added>>
    /\ UNCHANGED <<aggVars, probVars, entryVars, sumVars, searchVars, returned_verified>>

\* main.py lines 69-82
RunUpload ==
    /\ run_pc = "upload"
    /\ \E handled \in 0..Len(UploadOrder) :
          LET r == upload_to_gcs(files, bucket, handled)
          IN  /\ bucket' = r.bucket
              /\ calls' = Append(calls, Call("upload_to_gcs", "", 0, r.ok))
    /\ run_pc' = "returned"
    /\ UNCHANGED <<files, scrape_pc, latest_draws, all_draws, any_new_draws, save_args,
                   new_draws_added>>
    /\ UNCHANGED <<aggVars, probVars, entryVars, sumVars, searchVars, returned_verified>>

NextRun ==
    \/ RunDownload
    \/ RunScrape
    \/ ScrapeDownload
    \/ ScrapeLatest
    \/ ProcessPowerball
    \/ ProcessMegaMillions
    \/ UpdateStatistics
    \/ ScrapeUpload
    \/ RunCalculate
    \/ RunUpload

SpecRun == InitRun /\ [][NextRun]_vars

----------------------------------------------------------------------------
\* Properties of the scraper runs

\* the places in the record of calls where the function was called
Positions(op) == {i \in 1..Len(calls) : calls[i].op = op}

C28_FailedCalculationKeepsStatistics ==
    (\E c \in Positions("calculate_lottery_stats") : ~calls[c].ok) =>
        \A name \in StatsFiles : files[name].kind # "null" /\ bucket[name].kind # "null"

====
